---- MODULE Spec2Model ----
(***************************************************************************)
(* The Polyglot Engine document-tree pipeline.                             *)
(*                                                                         *)
(* Stage A (start-translation/main.js, startTranslation): discovery,       *)
(* content fetch and transform, export to object storage, submission of    *)
(* the batch translation job.                                              *)
(* Stage B (unnamed/part_001, processTranslated): correlation of a         *)
(* completed job with the exported metadata record, reconstruction of the  *)
(* page tree and recreation on the destination library.                    *)
(*                                                                         *)
(* JavaScript strings are sequences of tokens (a token is a TLA+ string    *)
(* standing for one or more characters that the code never splits).        *)
(* JavaScript objects are records; a property that is absent is a field    *)
(* that is not in the record's DOMAIN.                                     *)
(***************************************************************************)
EXTENDS Integers, Sequences, FiniteSets, TLC

\* Largest number of pages of a text on the source library.
MaxNodes == 3

\* start-translation/main.js:22 and unnamed/part_001:22
MAX_CONCURRENT == 2

---------------------------------------------------------------------------
(* JavaScript values *)

\* The values undefined and null where a string is expected.
Undefined == <<"<undefined>">>
Null == <<"<null>">>

\* null where a page object or an HTML document is expected.
NullObj == [null |-> TRUE]

IsNullObj(o) == "null" \in DOMAIN o

IsStr(v) == v # Undefined /\ v # Null

\* obj.field, undefined when the property is absent
Get(o, f) == IF f \in DOMAIN o THEN o[f] ELSE Undefined

WS == {" ", "\n"}

RECURSIVE TrimLeft(_)
TrimLeft(s) == IF s # <<>> /\ Head(s) \in WS THEN TrimLeft(Tail(s)) ELSE s

RECURSIVE TrimRight(_)
TrimRight(s) ==
  IF s # <<>> /\ s[Len(s)] \in WS THEN TrimRight(SubSeq(s, 1, Len(s) - 1)) ELSE s

\* String.prototype.trim
Trim(s) == TrimRight(TrimLeft(s))

\* The index of the first occurrence of the token sequence pat in s, 0 if none.
IndexOf(s, pat) ==
  LET hits == {k \in 1..(Len(s) - Len(pat) + 1) : SubSeq(s, k, k + Len(pat) - 1) = pat}
  IN IF hits = {} THEN 0 ELSE CHOOSE k \in hits : \A j \in hits : k <= j

\* String.prototype.replace(pat, rep) with a string pattern: the first occurrence only.
ReplaceFirst(s, pat, rep) ==
  LET k == IndexOf(s, pat)
  IN IF k = 0 THEN s
     ELSE SubSeq(s, 1, k - 1) \o rep \o SubSeq(s, k + Len(pat), Len(s))

\* String.prototype.split(sep) for a one-token separator.
RECURSIVE Split(_, _)
Split(s, sep) ==
  LET k == IndexOf(s, <<sep>>)
  IN IF k = 0 THEN <<s>>
     ELSE <<SubSeq(s, 1, k - 1)>> \o Split(SubSeq(s, k + 1, Len(s)), sep)

\* arr[k] of a JavaScript array (1-based here), undefined past its end.
Nth(arr, k) == IF k <= Len(arr) THEN arr[k] ELSE Undefined

\* String.prototype.replaceAll(from, to) for one-token strings.
ReplaceAllTok(s, from, to) == [k \in 1..Len(s) |-> IF s[k] = from THEN to ELSE s[k]]

RECURSIVE Concat(_)
Concat(ss) == IF ss = <<>> THEN <<>> ELSE Head(ss) \o Concat(Tail(ss))

\* The members of a set of integers in ascending order.
RECURSIVE Ascending(_)
Ascending(S) ==
  IF S = {} THEN <<>>
  ELSE LET m == CHOOSE x \in S : \A y \in S : x <= y
       IN <<m>> \o Ascending(S \ {m})

SeqRange(s) == {s[k] : k \in 1..Len(s)}

\* Array.prototype.map, and the loops that call an operation on every element.
RECURSIVE MapSeq(_, _)
MapSeq(Op(_), s) == IF s = <<>> THEN <<>> ELSE <<Op(Head(s))>> \o MapSeq(Op, Tail(s))

isNonEmptyString(str) == IsStr(str) /\ Len(Trim(str)) > 0

---------------------------------------------------------------------------
(* The source library: the pages the CXone API serves (stage A's input) *)

Libs == {<<"chem">>, <<"a", "-", "b">>}

\* The parent of every page but page 1, the cover: a tree on the pages 1..n.
ParentVectors(n) == {p \in [2..n -> 1..n] : \A i \in 2..n : p[i] < i}

Sources ==
  UNION {[n : {n}, par : ParentVectors(n), cover : BOOLEAN, lib : Libs] : n \in 1..MaxNodes}

\* pageInfo['@id']
PageId(i) == <<ToString(9 + i)>>

PageTitle(i) ==
  IF i = 1 THEN <<"Book">>
  ELSE IF i = 2 THEN <<"1.1", ":", " ", "Intro">>
  ELSE <<"Notes", " ", ToString(i)>>

PageSegment(i) ==
  IF i = 1 THEN <<"Book">>
  ELSE IF i = 2 THEN <<"1.1", "%3A", "Intro">>
  ELSE <<"Notes", "_", ToString(i)>>

RECURSIVE PagePath(_, _)
PagePath(src, i) ==
  IF i = 1 THEN PageSegment(1) ELSE PagePath(src, src.par[i]) \o <<"/">> \o PageSegment(i)

\* pageInfo.tags as processTags returns them
PageTags(src, i) ==
  IF i = 1 THEN (IF src.cover THEN <<"coverpage:yes", "article:topic-category">>
                 ELSE <<"article:topic-category">>)
  ELSE <<"article:topic">>

PageUrl(src, i) == <<"https://">> \o src.lib \o <<".libretexts.org/">> \o PagePath(src, i)

\* The property listing of a page: every page has an edit-tracking property, the
\* even pages an overview.
PageProperties(i) ==
  <<[name |-> <<"mindtouch.import#", "editedby">>, value |-> <<"bot">>]>>
  \o (IF i % 2 = 0
      THEN <<[name |-> <<"mindtouch.page#overview">>, value |-> <<"Summary", " ", ToString(i)>>]>>
      ELSE <<>>)
  \o <<[name |-> <<"mindtouch.page#welcomeHidden">>, value |-> <<"true">>]>>

\* The body of a page: text, a template token and two math spans.
PageBody(i) == <<"Text", ToString(i), "{{template.ShowOrg()}}", "\\(x\\)", "\\[y\\]">>

\* subpages['page.subpage'] of page i, in the listing's order
Children(src, i) == Ascending({j \in 2..src.n : src.par[j] = i})

---------------------------------------------------------------------------
(* start-translation/main.js *)

IsNumToken(tok) == tok \in {"zz", "1.1", "2.03"} \cup {ToString(k) : k \in 0..20}

\* /(\d|zz)/.test(str)
HasNumber(s) == \E k \in 1..Len(s) : IsNumToken(s[k])

parsePagePath(path) ==
  LET splitPath == Split(path, "/")
      relativePath == splitPath[Len(splitPath)]
      splitPagePath == Split(relativePath, "%3A")
      numberPart == splitPagePath[1]
  IN IF Len(splitPagePath) > 1 /\ HasNumber(numberPart)
     THEN <<TRUE, numberPart, Trim(ReplaceAllTok(splitPagePath[2], "_", " "))>>
     ELSE <<FALSE>>

\* retrieveSubpages without the test for the cover tag on the root.
RECURSIVE retrieveSubpagesAnyRoot(_, _, _, _)
retrieveSubpagesAnyRoot(src, i, parent, failed) ==
  IF i \in failed THEN NullObj
  ELSE
    LET kids == Children(src, i)
        foundSubpages == MapSeq(LAMBDA j : retrieveSubpagesAnyRoot(src, j, PageId(i), failed),
                                kids)
        path == PagePath(src, i)
        parsed == parsePagePath(path)
        base == [id |-> PageId(i), url |-> PageUrl(src, i), title |-> PageTitle(i),
                 tags |-> PageTags(src, i), subpages |-> foundSubpages,
                 lib |-> src.lib, path |-> path]
        hints == IF parsed[1] THEN [urlNumPrefix |-> parsed[2], urlTitleExtract |-> parsed[3]]
                 ELSE <<>>
        rel == IF parent # Null THEN [root |-> FALSE, parent |-> parent]
               ELSE [root |-> TRUE, parent |-> Null]
    IN base @@ hints @@ rel

\* The page tree rooted at page i of the source library, null when the branch fails.
\* failed: the pages whose identity or subpage request fails.
RECURSIVE retrieveSubpages(_, _, _, _)
retrieveSubpages(src, i, parent, failed) ==
  IF i \in failed THEN NullObj
  ELSE
    LET kids == Children(src, i)
        foundSubpages == MapSeq(LAMBDA j : retrieveSubpages(src, j, PageId(i), failed), kids)
        path == PagePath(src, i)
        parsed == parsePagePath(path)
        base == [id |-> PageId(i), url |-> PageUrl(src, i), title |-> PageTitle(i),
                 tags |-> PageTags(src, i), subpages |-> foundSubpages,
                 lib |-> src.lib, path |-> path]
        hints == IF parsed[1] THEN [urlNumPrefix |-> parsed[2], urlTitleExtract |-> parsed[3]]
                 ELSE <<>>
        rel == IF parent # Null THEN [root |-> FALSE, parent |-> parent]
               ELSE [root |-> TRUE, parent |-> Null]
        infoObj == base @@ hints @@ rel
    IN IF parent = Null /\ "coverpage:yes" \notin SeqRange(infoObj.tags)
       THEN NullObj
       ELSE infoObj

\* A call that threw (a rejected promise).
Threw == [threw |-> TRUE]

DidThrow(r) == "threw" \in DOMAIN r

includes(str, tok) == tok \in SeqRange(str)

\* getPageProperties: the page's properties without the edit-tracking ones, empty
\* when the request fails.
getPageProperties(i, propsFailed) ==
  IF i \in propsFailed THEN <<>>
  ELSE SelectSeq(PageProperties(i), LAMBDA prop : ~includes(prop.name, "editedby"))

\* An HTML document: the provenance marker elements it holds and the rest of it.
Html(marker, summary, body) == [marker |-> marker, summary |-> summary, body |-> body]

\* getPageContent: the body of the page, null when the request fails.
getPageContent(i, contentFailed) ==
  IF i \in contentFailed THEN NullObj ELSE Html(<<>>, <<>>, PageBody(i))

\* The number of the source page a page object was built from.
PageNo(page) == CHOOSE i \in 1..(MaxNodes + 1) : PageId(i) = page.id

\* getSubpageContents: the tree with contents, summary and props on every node;
\* Threw when a subpage is null (the assignment to currPage.contents throws).
RECURSIVE getSubpageContents(_, _, _)
getSubpageContents(page, contentFailed, propsFailed) ==
  IF IsNullObj(page) THEN Threw
  ELSE
    LET i == PageNo(page)
        pageProps == getPageProperties(i, propsFailed)
        isOverview(prop) == prop.name = <<"mindtouch.page#overview">>
        summaryIdx == IF \E k \in 1..Len(pageProps) : isOverview(pageProps[k])
                      THEN CHOOSE k \in 1..Len(pageProps) :
                             /\ isOverview(pageProps[k])
                             /\ \A j \in 1..(k - 1) : ~isOverview(pageProps[j])
                      ELSE 0
        withSummary == IF summaryIdx > 0 THEN [summary |-> pageProps[summaryIdx].value] ELSE <<>>
        props == IF summaryIdx > 0
                 THEN SubSeq(pageProps, 1, summaryIdx - 1)
                      \o SubSeq(pageProps, summaryIdx + 1, Len(pageProps))
                 ELSE pageProps
        subs == MapSeq(LAMBDA subpage : getSubpageContents(subpage, contentFailed, propsFailed),
                       page.subpages)
    IN IF \E k \in 1..Len(subs) : DidThrow(subs[k]) THEN Threw
       ELSE [subpages |-> subs, props |-> props, contents |-> getPageContent(i, contentFailed)]
            @@ withSummary @@ page

IsDekiToken(tok) == tok \in {"{{template.ShowOrg()}}"}

IsMathInline(tok) == tok \in {"\\(x\\)"}

IsMathDisplay(tok) == tok \in {"\\[y\\]"}

\* The three replaceAll rewrites of processPageContents on a piece of the document.
noTranslate(s) ==
  Concat(MapSeq(LAMBDA tok :
                  IF IsDekiToken(tok) THEN <<"<div translate=\"no\">", tok, "</div>">>
                  ELSE IF IsMathInline(tok) \/ IsMathDisplay(tok)
                       THEN <<"<span translate=\"no\">", tok, "</span>">>
                       ELSE <<tok>>,
                s))

\* processPageContents: the provenance block is prepended to every string contents
\* and the non-translatable regions are wrapped; Threw on a null page.
RECURSIVE processPageContents(_)
processPageContents(page) ==
  IF IsNullObj(page) THEN Threw
  ELSE
    LET old == page.contents
        titleSpan == [lib |-> page.lib, pageid |-> page.id,
                      text |-> noTranslate(<<"\n">> \o page.title \o <<"\n">>)]
        summaryP == IF "summary" \in DOMAIN page THEN <<noTranslate(page.summary)>> ELSE <<>>
        contents == IF IsNullObj(old) THEN old
                    ELSE Html(<<titleSpan>> \o old.marker, summaryP \o old.summary,
                              noTranslate(old.body))
        subs == MapSeq(LAMBDA subpage : processPageContents(subpage), page.subpages)
    IN IF \E k \in 1..Len(subs) : DidThrow(subs[k]) THEN Threw
       ELSE [contents |-> contents, subpages |-> subs] @@ page

\* delete pageData.contents; delete pageData.subpages: the page object afterwards.
StripPage(page) == [f \in DOMAIN page \ {"contents", "subpages"} |-> page[f]]

\* createFlatPageMetadataList with unshift replaced by push (post-order).
RECURSIVE createFlatPostOrder(_)
createFlatPostOrder(page) ==
  LET subs == IF "subpages" \in DOMAIN page
              THEN MapSeq(LAMBDA subpage : createFlatPostOrder(subpage), page.subpages)
              ELSE <<>>
  IN Concat(subs) \o <<StripPage(page)>>

\* createFlatPageMetadataList with the loop bound n - 1 (the last subpage skipped).
RECURSIVE createFlatSkipLast(_)
createFlatSkipLast(page) ==
  LET subs == IF "subpages" \in DOMAIN page
              THEN MapSeq(LAMBDA subpage : createFlatSkipLast(subpage),
                          SubSeq(page.subpages, 1, Len(page.subpages) - 1))
              ELSE <<>>
  IN <<StripPage(page)>> \o Concat(subs)

\* createFlatPageMetadataList: the returned array. Its entries are the page objects
\* of the tree themselves, each with contents and subpages deleted.
RECURSIVE createFlatPageMetadataList(_)
createFlatPageMetadataList(page) ==
  LET subs == IF "subpages" \in DOMAIN page
              THEN MapSeq(LAMBDA subpage : createFlatPageMetadataList(subpage), page.subpages)
              ELSE <<>>
  IN <<StripPage(page)>> \o Concat(subs)

coverID(lib, id) == lib \o <<"-">> \o id

\* createUploadCommands: one PutObject command (Key, Body) per page, the page first
\* (commands); threw for a null page, a page without directory or contents that
\* is not a string.
RECURSIVE createUploadCommands(_, _)
createUploadCommands(page, directory) ==
  IF IsNullObj(page) THEN [threw |-> TRUE, commands |-> <<>>]
  ELSE IF ~page.root /\ ~IsStr(directory) THEN [threw |-> TRUE, commands |-> <<>>]
  ELSE IF "contents" \notin DOMAIN page \/ IsNullObj(page.contents)
       THEN [threw |-> TRUE, commands |-> <<>>]
  ELSE
    LET dirRoot == IF page.root THEN coverID(page.lib, page.id) ELSE directory
        fileKey == dirRoot \o <<"/">> \o coverID(page.lib, page.id) \o <<".html">>
        subs == IF "subpages" \in DOMAIN page
                THEN MapSeq(LAMBDA subpage : createUploadCommands(subpage, dirRoot),
                            page.subpages)
                ELSE <<>>
    IN [threw |-> \E k \in 1..Len(subs) : subs[k].threw,
        commands |-> <<[Key |-> fileKey, Body |-> page.contents]>>
                     \o Concat(MapSeq(LAMBDA sub : sub.commands, subs))]

\* failCount with the status of the responses not looked at: only a write that
\* threw counts.
failCountThrown(responses) == Cardinality({k \in 1..Len(responses) : responses[k] = "threw"})

\* The failCount of uploadLibreText: the responses whose status is not 200.
failCount(responses) == Cardinality({k \in 1..Len(responses) : responses[k] # "200"})

\* The key of the JobMetadataRecord of a cover.
metadataKey(rootID) == rootID \o <<"/">> \o rootID \o <<".metadata.json">>

\* JSON.stringify(rootData): a property whose value is undefined is left out.
rootDataJSON(page, flatMetadata, targetLib, targetPath) ==
  [lib |-> page.lib, id |-> page.id, pageCount |-> Len(flatMetadata),
   allPages |-> flatMetadata]
  @@ (IF targetLib # Undefined THEN [targetLib |-> targetLib] ELSE <<>>)
  @@ (IF targetPath # Undefined THEN [targetPath |-> targetPath] ELSE <<>>)

\* An object store after PutObject of body under key.
Put(store, key, body) ==
  [k \in DOMAIN store \cup {key} |-> IF k = key THEN body ELSE store[k]]

---------------------------------------------------------------------------
(* Stage A: one invocation of startTranslation *)

VARIABLES
  src,              \* the source library the invocation reads
  event,            \* the queue record that triggered the invocation
  pcA,              \* the position of startTranslation
  reqParams,        \* the parsed request
  queueDeleted,     \* the queue message was deleted
  subpageResults,   \* the page tree startTranslation holds
  fetched,          \* the pages whose contents were requested
  uploadCommands,   \* uploadLibreText: the content PutObject commands
  uploadResponses,  \* uploadLibreText: the state of each content write
  flatArg,          \* the tree createFlatPageMetadataList was called with
  flatMetadata,     \* the array createFlatPageMetadataList returned
  metadataPuts,     \* the number of PutObject calls for the metadata record
  uploadResult,     \* what uploadLibreText returned
  submitCalls,      \* the StartTextTranslationJob requests sent
  resultA,          \* what startTranslation returned
  s3Input,          \* the input bucket: key -> document
  s3Output          \* the output bucket: key -> object

varsA == <<src, event, pcA, reqParams, queueDeleted, subpageResults, fetched,
           uploadCommands, uploadResponses, flatArg, flatMetadata, metadataPuts,
           uploadResult, submitCalls, resultA, s3Input, s3Output>>

\* No value yet.
None == [none |-> TRUE]

IsNone(v) == "none" \in DOMAIN v

INPUT_BUCKET == <<"in-bucket">>

OUTPUT_BUCKET == <<"out-bucket">>

\* The outcomes of a call to an external service: success, a response whose
\* status is not 200, a thrown error.
Outcomes == {"200", "500", "threw"}

\* The tokens that stand for a single character.
OneChar == {"e", "s", "A", ":", " ", "_", "/", "-", "\n"}

\* str.length, where a token of several characters counts for two.
CharLen(str) == Len(str) + Cardinality({k \in 1..Len(str) : str[k] \notin OneChar})

Events ==
  [bodyOk : BOOLEAN,
   language : {<<"e", "s">>, <<"e">>},
   notifyAddrs : {<<"a@x.org">>}]

InitA ==
  /\ src \in Sources
  /\ event \in Events
  /\ pcA = "parse"
  /\ reqParams = None
  /\ queueDeleted = FALSE
  /\ subpageResults = None
  /\ fetched = {}
  /\ uploadCommands = <<>>
  /\ uploadResponses = <<>>
  /\ flatArg = None
  /\ flatMetadata = None
  /\ metadataPuts = 0
  /\ uploadResult = "none"
  /\ submitCalls = <<>>
  /\ resultA = "none"
  /\ s3Input = <<>>
  /\ s3Output = <<>>

\* startTranslation returns (or rejects with) r.
ReturnA(r) == pcA' = "done" /\ resultA' = r

\* JSON.parse(event.body) and the log line that reads reqParams.lib.
ParseMessage ==
  /\ pcA = "parse"
  /\ IF event.bodyOk
     THEN /\ reqParams' = [lib |-> src.lib, path |-> PagePath(src, 1),
                           targetLib |-> <<"espanol">>, targetPath |-> <<"Sandbox">>,
                           language |-> event.language, notifyAddrs |-> event.notifyAddrs]
          /\ pcA' = "delete"
          /\ UNCHANGED resultA
     ELSE /\ ReturnA("threw")
          /\ UNCHANGED reqParams
  /\ UNCHANGED <<src, event, queueDeleted, subpageResults, fetched, uploadCommands,
                 uploadResponses, flatArg, flatMetadata, metadataPuts, uploadResult,
                 submitCalls, s3Input, s3Output>>

\* deleteQueueMessage with its result not looked at by startTranslation.
deleteQueueMessageIgnored ==
  /\ pcA = "delete"
  /\ \E out \in Outcomes :
       /\ queueDeleted' = (out = "200")
       /\ IF out = "threw" THEN ReturnA("threw") ELSE pcA' = "params" /\ UNCHANGED resultA
  /\ UNCHANGED <<src, event, reqParams, subpageResults, fetched, uploadCommands,
                 uploadResponses, flatArg, flatMetadata, metadataPuts, uploadResult,
                 submitCalls, s3Input, s3Output>>

\* deleteQueueMessage and the test of its result in startTranslation.
deleteQueueMessage ==
  /\ pcA = "delete"
  /\ \E out \in Outcomes :
       /\ queueDeleted' = (out = "200")
       /\ IF out = "200" THEN pcA' = "params" /\ UNCHANGED resultA
          ELSE IF out = "500" THEN ReturnA("false")
          ELSE ReturnA("threw")
  /\ UNCHANGED <<src, event, reqParams, subpageResults, fetched, uploadCommands,
                 uploadResponses, flatArg, flatMetadata, metadataPuts, uploadResult,
                 submitCalls, s3Input, s3Output>>

retrieveLibraryParametersA ==
  /\ pcA = "params"
  /\ \E ok \in BOOLEAN :
       IF ok THEN pcA' = "discover" /\ UNCHANGED resultA ELSE ReturnA("false")
  /\ UNCHANGED <<src, event, reqParams, queueDeleted, subpageResults, fetched,
                 uploadCommands, uploadResponses, flatArg, flatMetadata, metadataPuts,
                 uploadResult, submitCalls, s3Input, s3Output>>

\* let subpageResults = await retrieveSubpages(reqParams.lib, reqParams.path)
Discover ==
  /\ pcA = "discover"
  /\ \E failed \in SUBSET (1..src.n) :
       LET tree == retrieveSubpages(src, 1, Null, failed)
       IN /\ subpageResults' = tree
          /\ IF IsNullObj(tree) THEN ReturnA("false")
             ELSE pcA' = "fetch" /\ UNCHANGED resultA
  /\ UNCHANGED <<src, event, reqParams, queueDeleted, fetched, uploadCommands,
                 uploadResponses, flatArg, flatMetadata, metadataPuts, uploadResult,
                 submitCalls, s3Input, s3Output>>

\* The ids of the pages of a tree (null branches have none).
RECURSIVE TreeIds(_)
TreeIds(page) ==
  IF IsNullObj(page) THEN {}
  ELSE {page.id} \cup UNION {TreeIds(page.subpages[k]) : k \in 1..Len(page.subpages)}

\* subpageResults = await getSubpageContents(subpageResults)
FetchContents ==
  /\ pcA = "fetch"
  /\ \E contentFailed \in SUBSET (1..src.n), propsFailed \in SUBSET (1..src.n) :
       LET r == getSubpageContents(subpageResults, contentFailed, propsFailed)
       IN IF DidThrow(r)
          THEN \* the rejection leaves the requests of the other branches in flight
               /\ \E got \in SUBSET TreeIds(subpageResults) :
                    /\ subpageResults.id \in got
                    /\ fetched' = got
               /\ ReturnA("threw")
               /\ UNCHANGED subpageResults
          ELSE /\ subpageResults' = r
               /\ fetched' = TreeIds(subpageResults)
               /\ pcA' = "process"
               /\ UNCHANGED resultA
  /\ UNCHANGED <<src, event, reqParams, queueDeleted, uploadCommands, uploadResponses,
                 flatArg, flatMetadata, metadataPuts, uploadResult, submitCalls,
                 s3Input, s3Output>>

\* subpageResults = await processPageContents(subpageResults)
ProcessContents ==
  /\ pcA = "process"
  /\ subpageResults' = processPageContents(subpageResults)
  /\ pcA' = "upload"
  /\ UNCHANGED <<src, event, reqParams, queueDeleted, fetched, uploadCommands,
                 uploadResponses, flatArg, flatMetadata, metadataPuts, uploadResult,
                 submitCalls, resultA, s3Input, s3Output>>

\* uploadLibreText up to the start of the content writes: createUploadCommands, and
\* the catch block when it throws.
UploadStart ==
  /\ pcA = "upload"
  /\ LET made == createUploadCommands(subpageResults, Undefined)
     IN IF made.threw
        THEN /\ uploadResult' = "false"
             /\ pcA' = "submit"
             /\ UNCHANGED <<uploadCommands, uploadResponses>>
        ELSE /\ uploadCommands' = made.commands
             /\ uploadResponses' = [k \in 1..Len(made.commands) |-> "pending"]
             /\ pcA' = "uploading"
             /\ UNCHANGED uploadResult
  /\ UNCHANGED <<src, event, reqParams, queueDeleted, subpageResults, fetched, flatArg,
                 flatMetadata, metadataPuts, submitCalls, resultA, s3Input, s3Output>>

\* One content write of async.map completes. The writes are all in flight at once;
\* the first that throws rejects the map and uploadLibreText returns false from its
\* catch block, the other writes still in flight.
ContentWrite ==
  /\ pcA \in {"uploading", "submit"}
  /\ \E k \in 1..Len(uploadResponses), out \in Outcomes :
       /\ uploadResponses[k] = "pending"
       /\ uploadResponses' = [uploadResponses EXCEPT ![k] = out]
       /\ s3Input' = IF out = "200"
                     THEN Put(s3Input, uploadCommands[k].Key, uploadCommands[k].Body)
                     ELSE s3Input
       /\ IF out = "threw" /\ pcA = "uploading"
          THEN uploadResult' = "false" /\ pcA' = "submit"
          ELSE UNCHANGED <<uploadResult, pcA>>
  /\ UNCHANGED <<src, event, reqParams, queueDeleted, subpageResults, fetched,
                 uploadCommands, flatArg, flatMetadata, metadataPuts, submitCalls,
                 resultA, s3Output>>

\* uploadLibreText once every content write has returned: the failCount test, and
\* createFlatPageMetadataList, which deletes contents and subpages from the pages.
UploadsReturned ==
  /\ pcA = "uploading"
  /\ \A k \in 1..Len(uploadResponses) : uploadResponses[k] \in {"200", "500"}
  /\ IF failCount(uploadResponses) = 0
     THEN /\ flatArg' = subpageResults
          /\ flatMetadata' = createFlatPageMetadataList(subpageResults)
          /\ subpageResults' = StripPage(subpageResults)
          /\ pcA' = "metadata"
          /\ UNCHANGED uploadResult
     ELSE /\ uploadResult' = "false"
          /\ pcA' = "submit"
          /\ UNCHANGED <<flatArg, flatMetadata, subpageResults>>
  /\ UNCHANGED <<src, event, reqParams, queueDeleted, fetched, uploadCommands,
                 uploadResponses, metadataPuts, submitCalls, resultA, s3Input, s3Output>>

\* The PutObject of the metadata record; its response is not looked at.
MetadataWrite ==
  /\ pcA = "metadata"
  /\ \E out \in Outcomes :
       LET rootID == coverID(subpageResults.lib, subpageResults.id)
       IN /\ metadataPuts' = metadataPuts + 1
          /\ s3Output' = IF out = "200"
                         THEN Put(s3Output, metadataKey(rootID),
                                  rootDataJSON(subpageResults, flatMetadata,
                                               reqParams.targetLib, reqParams.targetPath))
                         ELSE s3Output
          /\ uploadResult' = IF out = "threw" THEN "false" ELSE "true"
  /\ pcA' = "submit"
  /\ UNCHANGED <<src, event, reqParams, queueDeleted, subpageResults, fetched,
                 uploadCommands, uploadResponses, flatArg, flatMetadata, submitCalls,
                 resultA, s3Input>>

S3Uri(bucket, cover) == <<"s3://">> \o bucket \o <<"/">> \o cover \o <<"/">>

\* The request initiateTranslationJob sends.
translationJob(cover, outLangCode) ==
  [JobName |-> cover, InputS3Uri |-> S3Uri(INPUT_BUCKET, cover),
   OutputS3Uri |-> S3Uri(OUTPUT_BUCKET, cover), TargetLanguageCodes |-> outLangCode,
   accepted |-> FALSE]

\* The rest of startTranslation: the return value of uploadLibreText is dropped,
\* initiateTranslationJob is called and startTranslation returns true.
SubmitJob ==
  /\ pcA = "submit"
  /\ LET job == translationJob(coverID(subpageResults.lib, subpageResults.id),
                               reqParams.language)
     IN IF ~IsStr(reqParams.language) \/ CharLen(reqParams.language) < 2
        THEN UNCHANGED submitCalls
        ELSE \E out \in Outcomes :
               submitCalls' = Append(submitCalls, [job EXCEPT !.accepted = (out = "200")])
  /\ ReturnA("true")
  /\ UNCHANGED <<src, event, reqParams, queueDeleted, subpageResults, fetched,
                 uploadCommands, uploadResponses, flatArg, flatMetadata, metadataPuts,
                 uploadResult, s3Input, s3Output>>

---------------------------------------------------------------------------
(* unnamed/part_001: processTranslated and what it calls *)

\* File contents that JSON.parse rejects.
Garbage == [garbage |-> TRUE]

IsGarbage(o) == "garbage" \in DOMAIN o

\* assembleUrl: the non-empty parts joined, a '/' added between two parts unless
\* the url so far ends with one or is at most one character long.
RECURSIVE assembleUrlFrom(_, _)
assembleUrlFrom(url, parts) ==
  IF parts = <<>> THEN url
  ELSE LET currPart == Head(parts)
           sep == IF (url = <<>> \/ url[Len(url)] # "/") /\ CharLen(Trim(url)) > 1
                  THEN <<"/">> ELSE <<>>
       IN IF isNonEmptyString(currPart)
          THEN assembleUrlFrom(url \o sep \o currPart, Tail(parts))
          ELSE assembleUrlFrom(url, Tail(parts))

assembleUrl(parts) == assembleUrlFrom(<<>>, parts)

\* getFileContents: the object read under the key, null for a response that is not
\* 200, Threw when the GetObject call rejects (the call is outside the try block).
formattedKey(bucket, key) ==
  ReplaceFirst(ReplaceFirst(key, <<"s3://">>, <<>>), bucket \o <<"/">>, <<>>)

getFileContents(store, bucket, key, out) ==
  IF out = "threw" THEN Threw
  ELSE IF out = "500" THEN NullObj
  ELSE store[formattedKey(bucket, key)]

\* The outcomes a GetObject of the key can have: 200 only for an object that exists.
ReadOutcomes(store, bucket, key) ==
  IF formattedKey(bucket, key) \in DOMAIN store THEN Outcomes ELSE {"500", "threw"}

\* getTranslationDetailsURI: the URI of the job's manifest, from the job properties
\* the translation service returns.
getTranslationDetailsURI(properties) ==
  properties.OutputS3Uri \o <<"details/">> \o properties.TargetLanguageCodes
  \o <<".auxiliary-translation-details.json">>

\* Number.parseInt(v, 10) is NaN
IsNaN(v) == ~IsStr(v) \/ v = <<>> \/ ~IsNumToken(v[1])

\* retrieveTranslationJobDetails without the tests on the cover id, lib and id.
retrieveTranslationJobDetailsUndecoded(detailsFileContents) ==
  IF DidThrow(detailsFileContents) THEN Threw
  ELSE IF IsNullObj(detailsFileContents) THEN NullObj
  ELSE IF IsGarbage(detailsFileContents) THEN NullObj
  ELSE IF "details" \notin DOMAIN detailsFileContents THEN NullObj
  ELSE IF "inputDataPrefix" \notin DOMAIN detailsFileContents THEN Threw
  ELSE
    LET detailsFile == detailsFileContents
        inputPath == ReplaceFirst(detailsFile.inputDataPrefix, <<"s3://">>, <<>>)
        inputCoverID == Nth(Split(inputPath, "/"), 2)
        splitCover == Split(inputCoverID, "-")
    IN IF \/ IsNaN(Get(detailsFile, "documentCountWithCustomerError"))
          \/ IsNaN(Get(detailsFile, "documentCountWithServerError"))
       THEN NullObj
       ELSE [lib |-> Nth(splitCover, 1), id |-> Nth(splitCover, 2),
             inputDataPrefix |-> detailsFile.inputDataPrefix,
             outputDataPrefix |-> Get(detailsFile, "outputDataPrefix"),
             details |-> detailsFile.details]

\* retrieveTranslationJobDetails after getFileContents returned detailsFileContents.
retrieveTranslationJobDetails(detailsFileContents) ==
  IF DidThrow(detailsFileContents) THEN Threw
  ELSE IF IsNullObj(detailsFileContents) THEN NullObj
  ELSE IF IsGarbage(detailsFileContents) THEN NullObj
  ELSE IF "details" \notin DOMAIN detailsFileContents THEN NullObj
  ELSE IF "inputDataPrefix" \notin DOMAIN detailsFileContents THEN Threw
  ELSE
    LET detailsFile == detailsFileContents
        inputPath == ReplaceFirst(detailsFile.inputDataPrefix, <<"s3://">>, <<>>)
        inputCoverID == Nth(Split(inputPath, "/"), 2)
        splitCover == Split(inputCoverID, "-")
        lib == Nth(splitCover, 1)
        id == Nth(splitCover, 2)
    IN IF ~isNonEmptyString(inputCoverID) THEN NullObj
       ELSE IF ~isNonEmptyString(lib) \/ ~isNonEmptyString(id) THEN NullObj
       ELSE IF \/ IsNaN(Get(detailsFile, "documentCountWithCustomerError"))
               \/ IsNaN(Get(detailsFile, "documentCountWithServerError"))
            THEN NullObj
       ELSE [lib |-> lib, id |-> id,
             inputDataPrefix |-> detailsFile.inputDataPrefix,
             outputDataPrefix |-> Get(detailsFile, "outputDataPrefix"),
             details |-> detailsFile.details]

\* retrieveInputMetadata with defaults in place of the tests on targetLib,
\* targetPath and allPages.
retrieveInputMetadataDefaults(metaContents) ==
  IF DidThrow(metaContents) THEN Threw
  ELSE IF IsNullObj(metaContents) THEN NullObj
  ELSE IF IsGarbage(metaContents) THEN NullObj
  ELSE metaContents @@ [targetLib |-> <<"espanol">>, targetPath |-> <<"Sandbox">>,
                        allPages |-> <<>>]

\* retrieveInputMetadata after getFileContents returned metaContents.
retrieveInputMetadata(metaContents) ==
  IF DidThrow(metaContents) THEN Threw
  ELSE IF IsNullObj(metaContents) THEN NullObj
  ELSE IF IsGarbage(metaContents) THEN NullObj
  ELSE IF ~isNonEmptyString(Get(metaContents, "targetLib")) THEN NullObj
  ELSE IF ~isNonEmptyString(Get(metaContents, "targetPath")) THEN NullObj
  ELSE IF "allPages" \notin DOMAIN metaContents THEN NullObj
  ELSE metaContents

\* retrieveAndProcessTranslatedContent after getFileContents returned
\* translatedContents: the fragment read from the first title marker and the first
\* summary marker, both removed from the contents.
retrieveAndProcessTranslatedContent(translatedContents) ==
  IF DidThrow(translatedContents) THEN Threw
  ELSE IF IsNullObj(translatedContents) THEN NullObj
  ELSE IF translatedContents.marker = <<>> THEN NullObj
  ELSE
    LET pageTitleSpan == Head(translatedContents.marker)
        pageSummary == IF translatedContents.summary # <<>>
                       THEN Head(translatedContents.summary) ELSE <<>>
        rest == IF translatedContents.summary # <<>>
                THEN Tail(translatedContents.summary) ELSE <<>>
    IN IF ~IsStr(pageTitleSpan.lib) \/ pageTitleSpan.lib = <<>>
          \/ ~IsStr(pageTitleSpan.pageid) \/ pageTitleSpan.pageid = <<>>
       THEN NullObj
       ELSE [title |-> pageTitleSpan.text,
             contents |-> Html(Tail(translatedContents.marker), rest, translatedContents.body),
             id |-> pageTitleSpan.pageid,
             summary |-> pageSummary,
             lib |-> pageTitleSpan.lib]

\* createPageStructure with the test on the parent left out of the recursion
\* (every page that is not the root attached under the root, once).
createPageStructureFlatly(page, inputPages) ==
  [subpages |-> MapSeq(LAMBDA subpage : [subpages |-> <<>>] @@ subpage,
                       SelectSeq(inputPages, LAMBDA subpage : ~subpage.root))] @@ page

\* createPageStructure without the recursion: the page with the pages whose parent
\* is its id, each without subpages.
createPageStructureOneLevel(page, inputPages) ==
  LET isSub(subpage) == ~subpage.root /\ subpage.parent = page.id
  IN [subpages |-> MapSeq(LAMBDA subpage : [subpages |-> <<>>] @@ subpage,
                          SelectSeq(inputPages, isSub))] @@ page

\* createPageStructure: the page with, as subpages, the pages whose parent is its
\* id, each with its own structure, in the order of inputPages.
RECURSIVE createPageStructure(_, _)
createPageStructure(page, inputPages) ==
  LET isSub(subpage) == ~subpage.root /\ subpage.parent = page.id
      found == SelectSeq(inputPages, isSub)
  IN [subpages |-> MapSeq(LAMBDA subpage : createPageStructure(subpage, inputPages), found)]
     @@ page

\* The first element of arr that satisfies Test: Array.prototype.find.
Find(arr, Test(_)) ==
  LET hits == SelectSeq(arr, Test) IN IF hits = <<>> THEN NullObj ELSE Head(hits)

\* mergePage with the test of find left out: the first entry of allPages is taken.
mergePageFirstInput(allPages, page) ==
  LET foundInput == IF allPages = <<>> THEN NullObj ELSE Head(allPages)
  IN IF IsNullObj(foundInput) THEN NullObj
     ELSE [root |-> foundInput.root, parent |-> foundInput.parent,
           tags |-> foundInput.tags, props |-> foundInput.props,
           path |-> foundInput.path,
           urlNumPrefix |-> Get(foundInput, "urlNumPrefix"),
           urlTitleExtract |-> Get(foundInput, "urlTitleExtract")] @@ page

\* The map callback of mergeInputStructure for one translated page.
mergePage(allPages, page) ==
  LET foundInput == Find(allPages, LAMBDA inputPage :
                                     page.lib = inputPage.lib /\ page.id = inputPage.id)
  IN IF IsNullObj(foundInput) THEN NullObj
     ELSE [root |-> foundInput.root, parent |-> foundInput.parent,
           tags |-> foundInput.tags, props |-> foundInput.props,
           path |-> foundInput.path,
           urlNumPrefix |-> Get(foundInput, "urlNumPrefix"),
           urlTitleExtract |-> Get(foundInput, "urlTitleExtract")] @@ page

\* The array pagesData of mergeInputStructure: the translated pages that match an
\* entry of allPages, merged with it.
pagesData(inputMetadata, translatedPages) ==
  SelectSeq(MapSeq(LAMBDA page : mergePage(inputMetadata.allPages, page), translatedPages),
            LAMBDA page : ~IsNullObj(page))

\* mergeInputStructure with the first matched page taken as the root when none is
\* marked as the root.
mergeInputStructureAnyRoot(inputMetadata, translatedPages) ==
  IF \E k \in 1..Len(translatedPages) : IsNullObj(translatedPages[k]) THEN Threw
  ELSE
    LET merged == pagesData(inputMetadata, translatedPages)
        rootPage == Find(merged, LAMBDA page : page.root)
    IN IF merged = <<>> THEN NullObj
       ELSE IF IsNullObj(rootPage) THEN createPageStructure(Head(merged), merged)
       ELSE createPageStructure(rootPage, merged)

\* mergeInputStructure giving up when a translated page matches no entry.
mergeInputStructureStrict(inputMetadata, translatedPages) ==
  IF \E k \in 1..Len(translatedPages) : IsNullObj(translatedPages[k]) THEN Threw
  ELSE
    LET merged == pagesData(inputMetadata, translatedPages)
        rootPage == Find(merged, LAMBDA page : page.root)
    IN IF IsNullObj(rootPage) \/ Len(merged) < Len(translatedPages) THEN NullObj
       ELSE createPageStructure(rootPage, merged)

\* mergeInputStructure: the reconstructed root, null when no matched page is the
\* root, Threw when a translated page is null (page.lib throws).
mergeInputStructure(inputMetadata, translatedPages) ==
  IF \E k \in 1..Len(translatedPages) : IsNullObj(translatedPages[k]) THEN Threw
  ELSE
    LET merged == pagesData(inputMetadata, translatedPages)
        rootPage == Find(merged, LAMBDA page : page.root)
    IN IF IsNullObj(rootPage) THEN NullObj
       ELSE createPageStructure(rootPage, merged)

\* The path segment saveToLibrary computes for a page.
newPagePath(page) ==
  LET trimTitle == Trim(page.title)
      splitTitle == Split(trimTitle, ":")
      newPageURLTitle == IF Len(splitTitle) > 1 THEN Trim(splitTitle[2]) ELSE trimTitle
  IN ReplaceAllTok(IF isNonEmptyString(Get(page, "urlNumPrefix"))
                   THEN page.urlNumPrefix \o <<":", " ">> \o newPageURLTitle
                   ELSE trimTitle,
                   " ", "_")

\* saveToLibrary returning false when the call for any of its subpages returned
\* false.
RECURSIVE saveToLibraryFailsWithSubpage(_, _, _, _, _)
saveToLibraryFailsWithSubpage(page, targetLib, targetPath, parentPath, createFailed) ==
  IF IsNullObj(page) \/ ~isNonEmptyString(targetLib) \/ ~isNonEmptyString(targetPath)
  THEN [ok |-> FALSE, created |-> {}]
  ELSE IF page.id \in createFailed THEN [ok |-> FALSE, created |-> {}]
  ELSE
    LET segment == newPagePath(page)
        pagePath == assembleUrl(<<targetPath, parentPath, segment>>)
        subs == MapSeq(LAMBDA subpage :
                         saveToLibraryFailsWithSubpage(
                           subpage, targetLib, targetPath,
                           assembleUrl(<<parentPath, segment>>), createFailed),
                       page.subpages)
    IN [ok |-> \A k \in 1..Len(subs) : subs[k].ok,
        created |-> {[source |-> coverID(page.lib, page.id), path |-> pagePath,
                      title |-> Trim(page.title), contents |-> page.contents,
                      tags |-> page.tags]}
                    \cup UNION {subs[k].created : k \in 1..Len(subs)}]

\* saveToLibrary: the pages created on the destination library (created) and the
\* value returned (ok). createFailed: the source ids of the pages whose creation
\* request fails.
RECURSIVE saveToLibrary(_, _, _, _, _)
saveToLibrary(page, targetLib, targetPath, parentPath, createFailed) ==
  IF IsNullObj(page) \/ ~isNonEmptyString(targetLib) \/ ~isNonEmptyString(targetPath)
  THEN [ok |-> FALSE, created |-> {}]
  ELSE IF page.id \in createFailed THEN [ok |-> FALSE, created |-> {}]
  ELSE
    LET segment == newPagePath(page)
        pagePath == assembleUrl(<<targetPath, parentPath, segment>>)
        subs == MapSeq(LAMBDA subpage :
                         saveToLibrary(subpage, targetLib, targetPath,
                                       assembleUrl(<<parentPath, segment>>), createFailed),
                       page.subpages)
    IN [ok |-> TRUE,
        created |-> {[source |-> coverID(page.lib, page.id), path |-> pagePath,
                      title |-> Trim(page.title), contents |-> page.contents,
                      tags |-> page.tags]}
                    \cup UNION {subs[k].created : k \in 1..Len(subs)}]

---------------------------------------------------------------------------
(* Stage B: one invocation of translatedEventHandler *)

VARIABLES
  world,            \* the scenario: what stage A and the translation service left behind
  eventB,           \* event.detail of the job notification
  pcB,              \* the position of processTranslated
  transOutputURI,   \* the URI of the job manifest
  jobMetadata,      \* what retrieveTranslationJobDetails returned
  inputMetadata,    \* what retrieveInputMetadata returned
  translatedPages,  \* the fragments read from the translated files
  pageStructure,    \* what mergeInputStructure returned
  s3Reads,          \* the GetObject calls made: the key and the outcome
  created,          \* the pages created on the destination library
  notified,         \* the completion messages sent
  resultB,          \* what the handler returned
  saveSuccess,      \* what saveToLibrary returned to processTranslated
  notifyCalls       \* the calls of sendCompletionNotification

varsB == <<world, eventB, pcB, transOutputURI, jobMetadata, inputMetadata,
           translatedPages, pageStructure, s3Reads, created, notified, resultB,
           saveSuccess, notifyCalls>>

\* The tree stage A exports when every request succeeds.
ExportedTree(source) ==
  CHOOSE tree \in {processPageContents(fetchedTree) :
                     fetchedTree \in {getSubpageContents(found, {}, {}) :
                                        found \in {retrieveSubpages(source, 1, Null, {})}}} : TRUE

\* What the translation service makes of a text and of a document.
TranslateText(mode, text) == IF mode = "same" THEN text ELSE <<"[es]">> \o text

TranslateDoc(mode, doc) ==
  Html(MapSeq(LAMBDA span : [span EXCEPT !.text = TranslateText(mode, @)], doc.marker),
       MapSeq(LAMBDA text : TranslateText(mode, text), doc.summary),
       TranslateText(mode, doc.body))

\* A document that lost its provenance marker.
Garbled(doc) == Html(<<>>, <<>>, doc.body)

\* A document whose marker names a page the metadata record does not list.
Foreign(doc) ==
  Html(MapSeq(LAMBDA span : [span EXCEPT !.pageid = <<"99">>], doc.marker),
       doc.summary, doc.body)

\* The folder the translation service writes the output of a job to.
OutputFolder(job) == job.OutputS3Uri \o <<"acct-TranslateText-job1", "/">>

\* The name of the file of a page and of its translation.
FileName(page) == coverID(page.lib, page.id) \o <<".html">>

TargetFile(job, page) == job.TargetLanguageCodes \o <<".">> \o FileName(page)

\* The input paths a manifest can carry: the one of the job, and paths that do not
\* decode to a (lib, id) pair.
ManifestKinds ==
  {"ok", "absent", "garbage", "noDetails", "noInputPrefix", "noErrorCounts",
   "noCover", "emptyCover", "noHyphen", "emptyLib", "emptyId"}

BadPathKinds == {"noCover", "emptyCover", "noHyphen", "emptyLib", "emptyId"}

InputPrefix(kind, job) ==
  IF kind = "noCover" THEN <<"s3://">> \o INPUT_BUCKET
  ELSE IF kind = "emptyCover" THEN <<"s3://">> \o INPUT_BUCKET \o <<"/", "/">>
  ELSE IF kind = "noHyphen" THEN <<"s3://">> \o INPUT_BUCKET \o <<"/", "chem10", "/">>
  ELSE IF kind = "emptyLib" THEN <<"s3://">> \o INPUT_BUCKET \o <<"/", "-", "10", "/">>
  ELSE IF kind = "emptyId" THEN <<"s3://">> \o INPUT_BUCKET \o <<"/", "chem", "-", "/">>
  ELSE job.InputS3Uri

\* The manifest the translation service writes for a job.
Manifest(kind, job, pages) ==
  IF kind = "garbage" THEN Garbage
  ELSE
    LET full == [inputDataPrefix |-> InputPrefix(kind, job),
                 outputDataPrefix |-> OutputFolder(job),
                 details |-> MapSeq(LAMBDA page : [sourceFile |-> FileName(page),
                                                   targetFile |-> TargetFile(job, page)],
                                    pages),
                 documentCountWithCustomerError |-> <<"0">>,
                 documentCountWithServerError |-> <<"0">>]
        drop == IF kind = "noDetails" THEN {"details"}
                ELSE IF kind = "noInputPrefix" THEN {"inputDataPrefix"}
                ELSE IF kind = "noErrorCounts" THEN {"documentCountWithServerError"}
                ELSE {}
    IN [f \in DOMAIN full \ drop |-> full[f]]

MetadataKinds == {"ok", "absent", "garbage", "noTargetLib", "noTargetPath", "noAllPages"}

\* The metadata record found in the output bucket: the one uploadLibreText wrote, or
\* one that was damaged since.
MetadataRecord(kind, tree) ==
  IF kind = "garbage" THEN Garbage
  ELSE
    LET full == rootDataJSON(StripPage(tree), createFlatPageMetadataList(tree),
                             <<"espanol">>, <<"Sandbox">>)
        drop == IF kind = "noTargetLib" THEN {"targetLib"}
                ELSE IF kind = "noTargetPath" THEN {"targetPath"}
                ELSE IF kind = "noAllPages" THEN {"allPages"}
                ELSE {}
    IN [f \in DOMAIN full \ drop |-> full[f]]

RECURSIVE PutAll(_, _)
PutAll(store, objects) ==
  IF objects = <<>> THEN store
  ELSE PutAll(Put(store, Head(objects).Key, Head(objects).Body), Tail(objects))

\* What a stage B invocation finds: a text exported and submitted by stage A, the
\* manifest and the translated files of the job. status: what became of each page's
\* file ("ok", "lost": no output file, "garbled": no marker in it, "foreign": its
\* marker names a page that is not in the metadata record).
\* What a failed step never looks at is kept at its default.
Scenarios ==
  {sc \in [source : {so \in Sources : so.cover},
           jobStatus : {"COMPLETED", "FAILED"},
           jobId : {<<"job1">>, Undefined},
           manifest : ManifestKinds,
           metadata : MetadataKinds,
           mode : {"same", "translated"},
           status : [1..MaxNodes -> {"ok", "lost", "garbled", "foreign"}]] :
     /\ \A i \in (sc.source.n + 1)..MaxNodes : sc.status[i] = "ok"
     /\ (sc.jobStatus # "COMPLETED" \/ sc.jobId = Undefined) =>
          (sc.manifest = "ok" /\ sc.metadata = "ok")
     /\ sc.manifest # "ok" => sc.metadata = "ok"
     /\ (sc.jobStatus # "COMPLETED" \/ sc.jobId = Undefined
           \/ sc.manifest # "ok" \/ sc.metadata # "ok") =>
          (sc.mode = "same" /\ \A i \in 1..MaxNodes : sc.status[i] = "ok")}

WorldFrom(sc, tree) ==
  LET exported == createUploadCommands(tree, Undefined).commands
      pages == createFlatPageMetadataList(tree)
      cover == coverID(tree.lib, tree.id)
      job == translationJob(cover, <<"e", "s">>)
      properties == [job EXCEPT !.OutputS3Uri = OutputFolder(job)]
      kept == SelectSeq([k \in 1..Len(pages) |-> k],
                        LAMBDA k : sc.status[PageNo(pages[k])] # "lost")
      Output(k) ==
        LET doc == TranslateDoc(sc.mode, exported[k].Body)
        IN [Key |-> formattedKey(OUTPUT_BUCKET,
                                 OutputFolder(job) \o TargetFile(job, pages[k])),
            Body |-> IF sc.status[PageNo(pages[k])] = "garbled" THEN Garbled(doc)
                     ELSE IF sc.status[PageNo(pages[k])] = "foreign" THEN Foreign(doc)
                     ELSE doc]
      manifestObj == IF sc.manifest = "absent" THEN <<>>
                     ELSE <<[Key |-> formattedKey(OUTPUT_BUCKET,
                                                  getTranslationDetailsURI(properties)),
                             Body |-> Manifest(sc.manifest, job,
                                               MapSeq(LAMBDA k : pages[k], kept))]>>
      metadataObj == IF sc.metadata = "absent" THEN <<>>
                     ELSE <<[Key |-> metadataKey(cover),
                             Body |-> MetadataRecord(sc.metadata, tree)]>>
  IN [job |-> [job EXCEPT !.accepted = TRUE],
      properties |-> properties,
      s3Input |-> PutAll(<<>>, exported),
      s3Output |-> PutAll(<<>>, metadataObj \o manifestObj \o MapSeq(Output, kept))]

WorldOf(sc) == CHOOSE w \in {WorldFrom(sc, tree) : tree \in {ExportedTree(sc.source)}} : TRUE

InitB ==
  /\ world \in Scenarios
  /\ eventB = [jobStatus |-> world.jobStatus, jobId |-> world.jobId]
  /\ pcB = "handler"
  /\ transOutputURI = Null
  /\ jobMetadata = None
  /\ inputMetadata = None
  /\ translatedPages = <<>>
  /\ pageStructure = None
  /\ s3Reads = {}
  /\ created = {}
  /\ notified = <<>>
  /\ resultB = "none"
  /\ saveSuccess = "none"
  /\ notifyCalls = 0

\* Stage A is over: the stores hold what it and the translation service wrote.
DoneA ==
  /\ src = world.source
  /\ event = [bodyOk |-> TRUE, language |-> <<"e", "s">>, notifyAddrs |-> <<"a@x.org">>]
  /\ pcA = "done"
  /\ reqParams = None
  /\ queueDeleted = TRUE
  /\ subpageResults = None
  /\ fetched = {}
  /\ uploadCommands = <<>>
  /\ uploadResponses = <<>>
  /\ flatArg = None
  /\ flatMetadata = None
  /\ metadataPuts = 0
  /\ uploadResult = "none"
  /\ submitCalls = <<WorldOf(world).job>>
  /\ resultA = "true"
  /\ s3Input = WorldOf(world).s3Input
  /\ s3Output = WorldOf(world).s3Output

\* processTranslated returns (or rejects with) r.
ReturnB(r) == pcB' = "done" /\ resultB' = r

\* translatedEventHandler without the test of the job status and of the job id.
HandlerAnyStatus ==
  /\ pcB = "handler"
  /\ pcB' = "describe"
  /\ UNCHANGED <<world, eventB, transOutputURI, jobMetadata, inputMetadata,
                 translatedPages, pageStructure, s3Reads, created, notified,
                 saveSuccess, notifyCalls, resultB>>

\* translatedEventHandler and the job id test of processTranslated.
Handler ==
  /\ pcB = "handler"
  /\ IF eventB.jobStatus # "COMPLETED" \/ ~isNonEmptyString(eventB.jobId)
     THEN ReturnB("false")
     ELSE pcB' = "describe" /\ UNCHANGED resultB
  /\ UNCHANGED <<world, eventB, transOutputURI, jobMetadata, inputMetadata,
                 translatedPages, pageStructure, s3Reads, created, notified,
                 saveSuccess, notifyCalls>>

\* const transOutputURI = await getTranslationDetailsURI(eventDetails.jobId)
DescribeJob ==
  /\ pcB = "describe"
  /\ \E out \in Outcomes :
       IF out = "200"
       THEN /\ transOutputURI' = getTranslationDetailsURI(WorldOf(world).properties)
            /\ pcB' = "manifest"
            /\ UNCHANGED resultB
       ELSE /\ ReturnB("false")
            /\ UNCHANGED transOutputURI
  /\ UNCHANGED <<world, eventB, jobMetadata, inputMetadata, translatedPages,
                 pageStructure, s3Reads, created, notified,
                 saveSuccess, notifyCalls>>

\* const jobMetadata = await retrieveTranslationJobDetails(s3Client, transOutputURI)
ReadManifest ==
  /\ pcB = "manifest"
  /\ \E out \in ReadOutcomes(s3Output, OUTPUT_BUCKET, transOutputURI) :
       LET r == retrieveTranslationJobDetails(
                  getFileContents(s3Output, OUTPUT_BUCKET, transOutputURI, out))
       IN /\ IF DidThrow(r) THEN ReturnB("threw") /\ UNCHANGED jobMetadata
             ELSE IF IsNullObj(r) THEN ReturnB("false") /\ UNCHANGED jobMetadata
             ELSE jobMetadata' = r /\ pcB' = "metadata" /\ UNCHANGED resultB
          /\ s3Reads' = s3Reads \cup {[Key |-> formattedKey(OUTPUT_BUCKET, transOutputURI),
                                        status |-> out]}
  /\ UNCHANGED <<world, eventB, transOutputURI, inputMetadata, translatedPages,
                 pageStructure, created, notified,
                 saveSuccess, notifyCalls>>

\* The key processTranslated reads the metadata record under.
sourceMetadataKey(lib, id) ==
  LET sourceCoverID == lib \o <<"-">> \o id
  IN sourceCoverID \o <<"/">> \o sourceCoverID \o <<".metadata.json">>

\* const inputMetadata = await retrieveInputMetadata(s3Client, ...)
ReadMetadata ==
  /\ pcB = "metadata"
  /\ LET key == sourceMetadataKey(jobMetadata.lib, jobMetadata.id)
     IN \E out \in ReadOutcomes(s3Output, OUTPUT_BUCKET, key) :
          LET r == retrieveInputMetadata(getFileContents(s3Output, OUTPUT_BUCKET, key, out))
          IN /\ IF DidThrow(r) THEN ReturnB("threw") /\ UNCHANGED inputMetadata
                ELSE IF IsNullObj(r) THEN ReturnB("false") /\ UNCHANGED inputMetadata
                ELSE inputMetadata' = r /\ pcB' = "params" /\ UNCHANGED resultB
             /\ s3Reads' = s3Reads \cup {[Key |-> formattedKey(OUTPUT_BUCKET, key),
                                           status |-> out]}
  /\ UNCHANGED <<world, eventB, transOutputURI, jobMetadata, translatedPages,
                 pageStructure, created, notified,
                 saveSuccess, notifyCalls>>

\* The two calls of retrieveLibraryParameters of processTranslated.
retrieveLibraryParametersB ==
  /\ pcB = "params"
  /\ \E srcParams \in BOOLEAN, trgtParams \in BOOLEAN :
       IF srcParams /\ trgtParams THEN pcB' = "translated" /\ UNCHANGED resultB
       ELSE ReturnB("false")
  /\ UNCHANGED <<world, eventB, transOutputURI, jobMetadata, inputMetadata,
                 translatedPages, pageStructure, s3Reads, created, notified,
                 saveSuccess, notifyCalls>>

\* The mapLimit over the translated files, each read by
\* retrieveAndProcessTranslatedContent.
ReadTranslated ==
  /\ pcB = "translated"
  /\ LET details == jobMetadata.details
         fileNames == [k \in 1..Len(details) |->
                         jobMetadata.outputDataPrefix \o details[k].targetFile]
     IN \E outs \in [1..Len(fileNames) -> Outcomes] :
          /\ \A k \in 1..Len(fileNames) :
               outs[k] \in ReadOutcomes(s3Output, OUTPUT_BUCKET, fileNames[k])
          /\ LET pages == [k \in 1..Len(fileNames) |->
                             retrieveAndProcessTranslatedContent(
                               getFileContents(s3Output, OUTPUT_BUCKET, fileNames[k], outs[k]))]
             IN IF \E k \in 1..Len(pages) : DidThrow(pages[k])
                THEN ReturnB("threw") /\ UNCHANGED translatedPages
                ELSE translatedPages' = pages /\ pcB' = "merge" /\ UNCHANGED resultB
          /\ s3Reads' = s3Reads \cup {[Key |-> formattedKey(OUTPUT_BUCKET, fileNames[k]),
                                        status |-> outs[k]] : k \in 1..Len(fileNames)}
  /\ UNCHANGED <<world, eventB, transOutputURI, jobMetadata, inputMetadata,
                 pageStructure, created, notified,
                 saveSuccess, notifyCalls>>

\* const pageStructure = mergeInputStructure(inputMetadata, translatedPages)
Merge ==
  /\ pcB = "merge"
  /\ LET r == mergeInputStructure(inputMetadata, translatedPages)
     IN IF DidThrow(r) THEN ReturnB("threw") /\ UNCHANGED pageStructure
        ELSE pageStructure' = r /\ pcB' = "save" /\ UNCHANGED resultB
  /\ UNCHANGED <<world, eventB, transOutputURI, jobMetadata, inputMetadata,
                 translatedPages, s3Reads, created, notified,
                 saveSuccess, notifyCalls>>

\* The test of saveSuccess with the notification sent whatever was saved.
notifyAfterAnySave(saved) == TRUE

\* if (saveSuccess)
notifyAfterSave(saved) == saved = "true"

\* const saveSuccess = await saveToLibrary(pageStructure, { targetLib, targetPath })
Save ==
  /\ pcB = "save"
  /\ \E createFailed \in SUBSET TreeIds(pageStructure) :
       LET r == saveToLibrary(pageStructure, inputMetadata.targetLib,
                              inputMetadata.targetPath, <<>>, createFailed)
       IN /\ created' = r.created
          /\ saveSuccess' = IF r.ok THEN "true" ELSE "false"
  /\ pcB' = "notify"
  /\ UNCHANGED <<world, eventB, transOutputURI, jobMetadata, inputMetadata,
                 translatedPages, pageStructure, s3Reads, notified, resultB, notifyCalls>>

\* The test of saveSuccess, sendCompletionNotification with the notifyAddrs of the
\* metadata record, and the return of saveSuccess.
Notify ==
  /\ pcB = "notify"
  /\ IF notifyAfterSave(saveSuccess)
     THEN /\ notifyCalls' = notifyCalls + 1
          /\ IF "notifyAddrs" \notin DOMAIN inputMetadata
                \/ Len(inputMetadata.notifyAddrs) < 1
             THEN UNCHANGED notified
             ELSE \E out \in Outcomes :
                    notified' = IF out = "200"
                                THEN Append(notified, inputMetadata.notifyAddrs)
                                ELSE notified
     ELSE UNCHANGED <<notified, notifyCalls>>
  /\ ReturnB(saveSuccess)
  /\ UNCHANGED <<world, eventB, transOutputURI, jobMetadata, inputMetadata,
                 translatedPages, pageStructure, s3Reads, created, saveSuccess>>

---------------------------------------------------------------------------
(* The recursive walks of a page tree: retrieveSubpages, getSubpageContents and
   saveToLibrary, one call per page *)

\* Largest number of pages of a tree that is walked.
MaxWalkNodes == 4

VARIABLES
  walkOp,           \* the walk: "discover", "fetch" or "save"
  walkSrc,          \* the tree that is walked
  walkCall,         \* the call for each page: "idle" (not made), "own" (at its own
                    \* requests), "subpages" (awaiting its subpages), "true", "false"
  walkCreate,       \* saveToLibrary: the outcome of the page creation request
  walkSoft,         \* saveToLibrary: the tag, property and thumbnail requests that failed
  walkRequests      \* the requests sent to the CXone API, each with its token

varsW == <<walkOp, walkSrc, walkCall, walkCreate, walkSoft, walkRequests>>

\* generateAPIRequestHeaders: the token of one call, named after the call for page p
\* that made it.
generateAPIRequestHeaders(p, caller) == [by |-> p, site |-> caller]

\* const reqHeaders = tokenHeaders || generateAPIRequestHeaders(): every call of
\* getSubpageContents below the root is given the reqHeaders of its parent.
reqHeaders(p) == generateAPIRequestHeaders(1, "getSubpageContents")

\* A request to the API for page p.
Request(p, kind, token) == [page |-> p, kind |-> kind, token |-> token]

WalkTrees == UNION {[n : {n}, par : ParentVectors(n)] : n \in 1..MaxWalkNodes}

Min(a, b) == IF a < b THEN a ELSE b

\* retrieveSubpages: a call is pushed for every subpage, then Promise.all.
subpagePromises(kids) == SeqRange(kids)

\* async.mapLimit and async.eachLimit without the limit.
mapLimitUnbounded(kids) == SeqRange(kids)

\* async.mapLimit and async.eachLimit with MAX_CONCURRENT: the calls made at once.
mapLimit(kids) == SeqRange(SubSeq(kids, 1, Min(MAX_CONCURRENT, Len(kids))))

\* The callback of eachLimit with the failure of the subpage thrown on.
subpageCallbackRethrows(returned) == IF returned = "false" THEN "rejected" ELSE "resolved"

\* The callback of mapLimit and eachLimit: the value the call for the subpage
\* returns is not looked at.
subpageCallback(returned) == "resolved"

\* The test on the page creation response without the test on the new page id.
createSucceededAnyId(outcome) == outcome # "failure"

\* saveToLibrary: '@status' is 'success' and the new page id is a non-empty string.
createSucceeded(outcome) == outcome = "success"

\* savePageTags, savePageProperties and copyPageThumbnail without their catch block.
savePageTagsThrows(out) == IF out = "200" THEN "returned" ELSE "threw"

\* savePageTags, savePageProperties, copyPageThumbnail: an error of the request is
\* caught and logged.
savePageTags(out) == "returned"

savePageProperties(out) == "returned"

copyPageThumbnail(out) == "returned"

\* The subpages of page p whose calls are in flight.
InFlight(call, p) ==
  {c \in SeqRange(Children(walkSrc, p)) : call[c] \in {"own", "subpages"}}

\* The calls after the own requests of page p are over and its subpages are begun.
StartSubpages(call, p) ==
  LET kids == Children(walkSrc, p)
      started == IF walkOp = "discover" THEN subpagePromises(kids) ELSE mapLimit(kids)
  IN [q \in DOMAIN call |->
        IF q = p THEN "subpages" ELSE IF q \in started THEN "own" ELSE call[q]]

\* The calls after the call for page p returned value: the limit lets the next
\* subpage of its parent begin; a callback that rejects ends the parent's loop and
\* the parent returns false from its catch block.
RECURSIVE Returned(_, _, _)
Returned(call, p, value) ==
  LET now == [call EXCEPT ![p] = value]
      parent == walkSrc.par[p]
      idle == {c \in SeqRange(Children(walkSrc, parent)) : now[c] = "idle"}
      next == CHOOSE c \in idle : \A d \in idle : c <= d
  IN IF p = 1 THEN now
     ELSE IF subpageCallback(value) = "rejected" /\ now[parent] = "subpages"
          THEN Returned(now, parent, "false")
     ELSE IF idle # {} /\ now[parent] = "subpages"
               /\ Cardinality(InFlight(now, parent)) < MAX_CONCURRENT
          THEN [now EXCEPT ![next] = "own"]
     ELSE now

InitW ==
  /\ walkOp \in {"discover", "fetch", "save"}
  /\ walkSrc \in WalkTrees
  /\ walkCall = [q \in 1..walkSrc.n |-> IF q = 1 THEN "own" ELSE "idle"]
  /\ walkCreate = [q \in 1..walkSrc.n |-> "none"]
  /\ walkSoft = {}
  /\ walkRequests = {}

\* The outcomes of the tag and of the property update, of the thumbnail copy.
SoftOutcomes == {"200", "500"}

\* retrieveSubpages up to Promise.all: the page and subpage requests; an error is
\* caught and the call returns null.
RetrieveOwn(p) ==
  /\ walkOp = "discover"
  /\ walkCall[p] = "own"
  /\ \E ok \in BOOLEAN :
       LET reqTokenHeaders == generateAPIRequestHeaders(p, "retrieveSubpages")
       IN /\ walkCall' = IF ok THEN StartSubpages(walkCall, p)
                         ELSE Returned(walkCall, p, "false")
          /\ walkRequests' = walkRequests
                \cup {Request(p, "page", reqTokenHeaders)}
                \cup (IF ok THEN {Request(p, "subpages", reqTokenHeaders)} ELSE {})
  /\ UNCHANGED <<walkOp, walkSrc, walkCreate, walkSoft>>

\* getSubpageContents up to mapLimit: getPageContent and getPageProperties, which
\* return null or an empty list when their request fails.
FetchOwn(p) ==
  /\ walkOp = "fetch"
  /\ walkCall[p] = "own"
  /\ walkCall' = StartSubpages(walkCall, p)
  /\ walkRequests' = walkRequests \cup {Request(p, "contents", reqHeaders(p)),
                                         Request(p, "properties", reqHeaders(p))}
  /\ UNCHANGED <<walkOp, walkSrc, walkCreate, walkSoft>>

\* saveToLibrary up to eachLimit: the page creation request, savePageTags and
\* savePageProperties.
SaveOwn(p) ==
  /\ walkOp = "save"
  /\ walkCall[p] = "own"
  /\ \E create \in {"success", "failure", "noId"}, tagsOut \in SoftOutcomes,
        propsOut \in SoftOutcomes :
       /\ walkCreate' = [walkCreate EXCEPT ![p] = create]
       /\ IF ~createSucceeded(create)
          THEN /\ tagsOut = "200" /\ propsOut = "200"
               /\ walkCall' = Returned(walkCall, p, "false")
               /\ walkRequests' = walkRequests
                     \cup {Request(p, "create", generateAPIRequestHeaders(p, "saveToLibrary"))}
               /\ UNCHANGED walkSoft
          ELSE /\ walkRequests' = walkRequests
                     \cup {Request(p, kind, generateAPIRequestHeaders(p, "saveToLibrary")) :
                             kind \in {"create", "tags", "properties"}}
               /\ walkSoft' = walkSoft \cup {<<p, "tags">> : x \in {tagsOut} \ {"200"}}
                                       \cup {<<p, "props">> : x \in {propsOut} \ {"200"}}
               /\ walkCall' = IF savePageTags(tagsOut) = "threw"
                                 \/ savePageProperties(propsOut) = "threw"
                              THEN Returned(walkCall, p, "false")
                              ELSE StartSubpages(walkCall, p)
  /\ UNCHANGED <<walkOp, walkSrc>>

\* page.tags includes 'article:topic-category' or 'article:topic-guide'
HasThumbnail(p) ==
  includes(PageTags([cover |-> TRUE], p), "article:topic-category")
  \/ includes(PageTags([cover |-> TRUE], p), "article:topic-guide")

\* The calls for the subpages of a page have all returned: the call for the page
\* returns, saveToLibrary after copyPageThumbnail.
WalkReturn ==
  \E p \in 1..walkSrc.n :
    /\ walkCall[p] = "subpages"
    /\ \A c \in SeqRange(Children(walkSrc, p)) : walkCall[c] \in {"true", "false"}
    /\ IF walkOp = "save" /\ HasThumbnail(p)
       THEN \E out \in SoftOutcomes :
              /\ walkSoft' = walkSoft \cup {<<p, "thumbnail">> : x \in {out} \ {"200"}}
              /\ walkRequests' = walkRequests
                    \cup {Request(p, "thumbnail get",
                                  generateAPIRequestHeaders(p, "copyPageThumbnail source"))}
                    \cup (IF out = "200"
                          THEN {Request(p, "thumbnail put",
                                        generateAPIRequestHeaders(p, "copyPageThumbnail target"))}
                          ELSE {})
              /\ walkCall' = Returned(walkCall, p, IF copyPageThumbnail(out) = "threw"
                                                   THEN "false" ELSE "true")
       ELSE /\ walkCall' = Returned(walkCall, p, "true")
            /\ UNCHANGED <<walkSoft, walkRequests>>
    /\ UNCHANGED <<walkOp, walkSrc, walkCreate>>

\* No walk.
IdleW ==
  /\ walkOp = "none"
  /\ walkSrc = None
  /\ walkCall = <<>>
  /\ walkCreate = <<>>
  /\ walkSoft = {}
  /\ walkRequests = {}

\* No stage A invocation.
IdleA ==
  /\ src = None
  /\ event = None
  /\ pcA = "idle"
  /\ reqParams = None
  /\ queueDeleted = FALSE
  /\ subpageResults = None
  /\ fetched = {}
  /\ uploadCommands = <<>>
  /\ uploadResponses = <<>>
  /\ flatArg = None
  /\ flatMetadata = None
  /\ metadataPuts = 0
  /\ uploadResult = "none"
  /\ submitCalls = <<>>
  /\ resultA = "none"
  /\ s3Input = <<>>
  /\ s3Output = <<>>

\* No stage B invocation.
IdleB ==
  /\ world = None
  /\ eventB = None
  /\ pcB = "idle"
  /\ transOutputURI = Null
  /\ jobMetadata = None
  /\ inputMetadata = None
  /\ translatedPages = <<>>
  /\ pageStructure = None
  /\ s3Reads = {}
  /\ created = {}
  /\ notified = <<>>
  /\ resultB = "none"
  /\ saveSuccess = "none"
  /\ notifyCalls = 0

---------------------------------------------------------------------------
(* Calls of the functions that compute paths and contents: newPagePath and the
   paths of saveToLibrary, parsePagePath, processPageContents *)

\* Longest title, in tokens, newPagePath is called with.
MaxTitleLen == 4

\* Longest path, in tokens, parsePagePath is called with.
MaxPathLen == 5

\* Deepest chain of pages saveToLibrary is called with.
MaxDepth == 3

\* Longest body, in tokens, processPageContents is called with.
MaxBodyLen == 2

\* Largest number of matched fragments createPageStructure is called with.
MaxFragments == 4

VARIABLES
  fnName,           \* the function that is called
  fnArg,            \* its argument
  fnDone,           \* the call has returned
  fnResult          \* what it returned

varsF == <<fnName, fnArg, fnDone, fnResult>>

SeqsUpTo(tokens, n) == UNION {[1..k -> tokens] : k \in 0..n}

\* page.title and page.urlNumPrefix of the pages saveToLibrary writes.
TitledPages ==
  [title : SeqsUpTo({"1.1", ":", " ", "Intro", "Part"}, MaxTitleLen),
   urlNumPrefix : {Undefined, <<"1.1">>}]

\* The path argument of parsePagePath.
Paths == SeqsUpTo({"2.03", "zz", "Unit", "_", "%3A", "/", "Title"}, MaxPathLen)

\* A destination root path and the titles of a chain of pages, the root first.
PathChains ==
  [targetPath : {<<"Sandbox">>, <<"A">>},
   titles : UNION {[1..d -> {<<"A">>, <<"Intro">>, <<"e", "s">>}] : d \in 1..MaxDepth}]

\* The reconstructed tree of a chain: page k is the only subpage of page k - 1.
RECURSIVE ChainFrom(_, _)
ChainFrom(titles, k) ==
  [lib |-> <<"chem">>, id |-> PageId(k), title |-> titles[k],
   contents |-> Html(<<>>, <<>>, <<>>), tags |-> <<>>,
   root |-> (k = 1), parent |-> IF k = 1 THEN Null ELSE PageId(k - 1),
   subpages |-> IF k < Len(titles) THEN <<ChainFrom(titles, k + 1)>> ELSE <<>>]

\* A fetched page with its body.
ContentPages ==
  {[lib |-> <<"chem">>, id |-> PageId(1), title |-> <<"Book">>, root |-> TRUE,
    parent |-> Null, subpages |-> <<>>, contents |-> Html(<<>>, <<>>, body)] :
     body \in SeqsUpTo({"Text", "{{template.ShowOrg()}}", "\\(x\\)"}, MaxBodyLen)}

\* The id of a page that has no fragment.
AbsentId == <<"99">>

\* The matched fragments of mergeInputStructure (pagesData): unique ids, the
\* fragment of page 1 is the root, every other fragment names as its parent any
\* fragment or a page that has none; in the order of the manifest or reversed.
FragmentLists ==
  UNION {
    {LET frags == [k \in 1..n |->
                    [lib |-> <<"chem">>, id |-> PageId(k), root |-> (k = 1),
                     parent |-> IF k = 1 THEN Null
                                ELSE IF par[k] = 0 THEN AbsentId ELSE PageId(par[k])]]
     IN IF reversed THEN [k \in 1..n |-> frags[n + 1 - k]] ELSE frags :
       par \in [2..n -> 0..n], reversed \in BOOLEAN} : n \in 1..MaxFragments}

InitF ==
  /\ fnDone = FALSE
  /\ fnResult = None
  /\ \/ fnName = "newPagePath" /\ fnArg \in TitledPages
     \/ fnName = "saveToLibrary" /\ fnArg \in PathChains
     \/ fnName = "parsePagePath" /\ fnArg \in Paths
     \/ fnName = "processPageContents" /\ fnArg \in ContentPages
     \/ fnName = "createPageStructure" /\ fnArg \in FragmentLists

\* saveToLibrary, the computation of newPagePath.
CallNewPagePath ==
  /\ fnName = "newPagePath"
  /\ ~fnDone
  /\ fnResult' = newPagePath(fnArg)
  /\ fnDone' = TRUE
  /\ UNCHANGED <<fnName, fnArg>>

\* saveToLibrary on a chain of pages: the pages created, each with its path.
CallSaveToLibrary ==
  /\ fnName = "saveToLibrary"
  /\ ~fnDone
  /\ fnResult' = saveToLibrary(ChainFrom(fnArg.titles, 1), <<"espanol">>,
                               fnArg.targetPath, <<>>, {}).created
  /\ fnDone' = TRUE
  /\ UNCHANGED <<fnName, fnArg>>

CallParsePagePath ==
  /\ fnName = "parsePagePath"
  /\ ~fnDone
  /\ fnResult' = parsePagePath(fnArg)
  /\ fnDone' = TRUE
  /\ UNCHANGED <<fnName, fnArg>>

CallProcessPageContents ==
  /\ fnName = "processPageContents"
  /\ ~fnDone
  /\ fnResult' = processPageContents(fnArg)
  /\ fnDone' = TRUE
  /\ UNCHANGED <<fnName, fnArg>>

\* mergeInputStructure, from the search of the root page: the tree of pagesData.
CallCreatePageStructure ==
  /\ fnName = "createPageStructure"
  /\ ~fnDone
  /\ LET rootPage == Find(fnArg, LAMBDA page : page.root)
     IN fnResult' = createPageStructure(rootPage, fnArg)
  /\ fnDone' = TRUE
  /\ UNCHANGED <<fnName, fnArg>>

\* No function call.
IdleF ==
  /\ fnName = "none"
  /\ fnArg = None
  /\ fnDone = FALSE
  /\ fnResult = None

---------------------------------------------------------------------------
(* Discovery on the subpage listings the API serves, which need not form a tree *)

\* The pages of the listings.
MaxGraphNodes == 3

\* The deepest nesting of retrieveSubpages calls that is followed.
MaxChain == 4

VARIABLES
  listing,          \* the subpage listing the API serves for each page
  chain,            \* the pages of the nested retrieveSubpages calls, the root first
  returned          \* the calls that returned, each named by its chain

varsD == <<listing, chain, returned>>

\* subpages['page.subpage'] of every page: no listing is trusted to be acyclic.
Listings ==
  [1..MaxGraphNodes -> {kids \in SUBSET (1..MaxGraphNodes) : Cardinality(kids) <= MAX_CONCURRENT}]

InitD ==
  /\ listing \in Listings
  /\ chain = <<1>>
  /\ returned = {}

\* addSubpage: retrieveSubpages is called for a subpage of the listing of the page
\* the innermost call is for.
DescendInto ==
  /\ chain # <<>>
  /\ Len(chain) < MaxChain
  /\ \E subpage \in listing[chain[Len(chain)]] :
       /\ Append(chain, subpage) \notin returned
       /\ chain' = Append(chain, subpage)
  /\ UNCHANGED <<listing, returned>>

\* Promise.all: the innermost call returns once the calls for the subpages of its
\* page have returned.
ReturnFrom ==
  /\ chain # <<>>
  /\ \A subpage \in listing[chain[Len(chain)]] : Append(chain, subpage) \in returned
  /\ returned' = returned \cup {chain}
  /\ chain' = SubSeq(chain, 1, Len(chain) - 1)
  /\ UNCHANGED listing

\* No discovery.
IdleD ==
  /\ listing = <<>>
  /\ chain = <<>>
  /\ returned = {}

---------------------------------------------------------------------------
(* Ignition (unnamed/part_000, engineIgnition): authorization and          *)
(* validation of a request, then its message to the engine queue.          *)
(* A URL is a string of the tokens scheme, host labels, "." and "/".       *)

VARIABLES
  eventI,        \* the invocation event: headers and queryStringParameters
  ssmOutcome,    \* what the parameter store answers to GetParameter
  pcI,           \* position in engineIgnition
  authorizedI,   \* the value verifyAuthorization returned
  validationI,   \* the value validateEventParams returned
  sendCalls,     \* SendMessage calls made
  queueI,        \* the messages the queue accepted
  responseI      \* what handleEngineIgnition returned

varsI == <<eventI, ssmOutcome, pcI, authorizedI, validationI, sendCalls, queueI, responseI>>

\* !value for a string or undefined
Falsy(s) == s = Undefined \/ s = Null \/ s = <<>>

Schemes == {"https://", "http://"}

\* The index of the first token of s after position k that is in the set toks, 0 if none.
FirstAfter(s, k, toks) ==
  LET hits == {j \in (k + 1)..Len(s) : s[j] \in toks}
  IN IF hits = {} THEN 0 ELSE CHOOSE j \in hits : \A i \in hits : j <= i

\* url.match(/https?:\/\/.*?\.libretexts\.org/)
matchesLibreTexts(url) ==
  \E k \in 1..Len(url) :
    /\ url[k] \in Schemes
    /\ \E j \in (k + 1)..Len(url) :
         j + 3 <= Len(url) /\ SubSeq(url, j, j + 3) = <<".", "libretexts", ".", "org">>

parseURL(url) ==
  IF isNonEmptyString(url) /\ matchesLibreTexts(url)
  THEN LET k == FirstAfter(url, 0, Schemes)
           slash == FirstAfter(url, k, {"/"})
           path == IF slash = 0 THEN <<>> ELSE SubSeq(url, slash + 1, Len(url))
           dot == FirstAfter(url, k, {"."})
           subdomain == IF dot = 0 THEN <<>> ELSE SubSeq(url, k + 1, dot - 1)
       IN <<subdomain, path>>
  ELSE <<>>

generateHTTPResponse(status) == [statusCode |-> status]

Passphrase == <<"s3cret">>

SsmOutcomes == {"200", "500", "noparam", "threw"}

verifyAuthorization(headers, ssm) ==
  IF IsNullObj(headers) THEN FALSE
  ELSE LET lower == Get(headers, "authorization")
           authField == IF Falsy(lower) THEN Get(headers, "Authorization") ELSE lower
       IN IF Falsy(authField) THEN FALSE
          ELSE IF ssm # "200" THEN FALSE
          ELSE Passphrase = ReplaceFirst(authField, <<"Bearer ">>, <<>>)

\* The error, or the accepted address, that one entry of the notify list gives.
notifyEntry(email) ==
  IF "@" \in SeqRange(email) /\ Len(Trim(email)) > 0
  THEN [addr |-> Trim(email)]
  ELSE [error |-> <<"address">>]

invalidString(v) == ~IsStr(v) \/ Len(Trim(v)) < 1

validateEventParams(queryParams) ==
  IF IsNullObj(queryParams) THEN Threw
  ELSE
    LET url == Get(queryParams, "url")
        targetpath == Get(queryParams, "targetpath")
        language == Get(queryParams, "language")
        notify == Get(queryParams, "notify")
        entries == CHOOSE t \in {IF IsStr(notify) THEN MapSeq(notifyEntry, Split(notify, ","))
                                 ELSE <<>>} : TRUE
        notifyAddrs == SelectSeq(entries, LAMBDA e : "addr" \in DOMAIN e)
        source == parseURL(url)
        target == parseURL(targetpath)
        lib == Nth(source, 1)
        path == Nth(source, 2)
        targetLib == Nth(target, 1)
        targetPath == Nth(target, 2)
        validationErrors ==
          (IF invalidString(url) THEN <<"url">> ELSE <<>>)
          \o (IF invalidString(targetpath) THEN <<"targetpath">> ELSE <<>>)
          \o (IF invalidString(language) THEN <<"language">> ELSE <<>>)
          \o MapSeq(LAMBDA e : "address", SelectSeq(entries, LAMBDA e : "error" \in DOMAIN e))
          \o (IF Falsy(lib) \/ Falsy(path) THEN <<"source">> ELSE <<>>)
          \o (IF Falsy(targetLib) \/ Falsy(targetPath) THEN <<"target">> ELSE <<>>)
    IN [valid |-> validationErrors = <<>>,
        errors |-> validationErrors,
        params |-> [language |-> language, lib |-> lib, path |-> path,
                    targetLib |-> targetLib, targetPath |-> targetPath,
                    notifyAddrs |-> MapSeq(LAMBDA e : e.addr, notifyAddrs)]]

\* The requests: headers with or without the passphrase, query-string
\* parameters present or null.
HeaderSets ==
  {NullObj,
   [host |-> <<"api">>],
   [authorization |-> <<"Bearer ", "s3cret">>],
   [Authorization |-> <<"s3cret">>],
   [authorization |-> <<"Bearer ", "wrong">>]}

SourceUrls ==
  {<<"https://", "chem", ".", "libretexts", ".", "org", "/", "Book">>,
   <<"https://", "chem", ".", "libretexts", ".", "org", "/">>,
   <<"https://", "example", ".", "com", "/", "Book">>,
   <<" ">>}

TargetUrls ==
  {<<"http://", "query", ".", "libretexts", ".", "org", "/", "Libro", "/", "Uno">>,
   <<"https://", ".", "libretexts", ".", "org", "/", "Libro">>}

Languages == {<<"es">>, <<" ">>}

NotifyLists ==
  {<<"a", "@", "x">>,
   <<"a", "@", "x", ",", " ", "b", "@", "y">>,
   <<"a", "@", "x", ",", "b">>,
   <<>>}

\* Every non-empty subset of the four parameters may be present.
QueryParams ==
  {[f \in present |-> full[f]] :
     full \in [url : SourceUrls, targetpath : TargetUrls,
               language : Languages, notify : NotifyLists],
     present \in SUBSET {"url", "targetpath", "language", "notify"} \ {{}}}

IgnitionEvents ==
  {NullObj} \cup [headers : HeaderSets, queryStringParameters : QueryParams \cup {NullObj}]

InitI ==
  /\ eventI \in IgnitionEvents
  /\ ssmOutcome \in SsmOutcomes
  /\ pcI = "handler"
  /\ authorizedI = None
  /\ validationI = None
  /\ sendCalls = 0
  /\ queueI = <<>>
  /\ responseI = "none"

ReturnI(value) ==
  /\ pcI' = "done"
  /\ responseI' = value

\* handleEngineIgnition
HandleEvent ==
  /\ pcI = "handler"
  /\ IF IsNullObj(eventI)
     THEN ReturnI("false")
     ELSE pcI' = "authorize" /\ UNCHANGED responseI
  /\ UNCHANGED <<eventI, ssmOutcome, authorizedI, validationI, sendCalls, queueI>>

\* engineIgnition up to the return of the 401 response
Authorize ==
  /\ pcI = "authorize"
  /\ LET authorized == verifyAuthorization(eventI.headers, ssmOutcome)
     IN /\ authorizedI' = [value |-> authorized]
        /\ IF ~authorized
           THEN ReturnI(generateHTTPResponse("401").statusCode)
           ELSE pcI' = "validate" /\ UNCHANGED responseI
  /\ UNCHANGED <<eventI, ssmOutcome, validationI, sendCalls, queueI>>

\* engineIgnition from the validation to the return of the 400 response
Validate ==
  /\ pcI = "validate"
  /\ LET result == validateEventParams(eventI.queryStringParameters)
     IN /\ validationI' = result
        /\ IF DidThrow(result) THEN ReturnI("threw")
           ELSE IF ~result.valid
           THEN ReturnI(generateHTTPResponse("400").statusCode)
           ELSE pcI' = "send" /\ UNCHANGED responseI
  /\ UNCHANGED <<eventI, ssmOutcome, authorizedI, sendCalls, queueI>>

queueMsg(original, foundParams) == [originalParams |-> original] @@ foundParams

\* engineIgnition from the queue message to the final response
Enqueue ==
  /\ pcI = "send"
  /\ sendCalls' = sendCalls + 1
  /\ \E outcome \in Outcomes :
       /\ queueI' = IF outcome = "200"
                    THEN Append(queueI, queueMsg(eventI.queryStringParameters, validationI.params))
                    ELSE queueI
       /\ ReturnI(IF outcome = "threw" THEN "threw"
                  ELSE IF outcome # "200" THEN generateHTTPResponse("500").statusCode
                  ELSE generateHTTPResponse("200").statusCode)
  /\ UNCHANGED <<eventI, ssmOutcome, authorizedI, validationI>>

IdleI ==
  /\ eventI = NullObj
  /\ ssmOutcome = "200"
  /\ pcI = "done"
  /\ authorizedI = None
  /\ validationI = None
  /\ sendCalls = 0
  /\ queueI = <<>>
  /\ responseI = "none"

vars == <<varsA, varsB, varsW, varsF, varsD, varsI>>

\* Stage A: one invocation of startTranslation.
Init == InitA /\ IdleB /\ IdleW /\ IdleF /\ IdleD /\ IdleI

Next ==
  \/ ParseMessage /\ UNCHANGED <<varsB, varsW, varsF, varsD, varsI>>
  \/ deleteQueueMessage /\ UNCHANGED <<varsB, varsW, varsF, varsD, varsI>>
  \/ retrieveLibraryParametersA /\ UNCHANGED <<varsB, varsW, varsF, varsD, varsI>>
  \/ Discover /\ UNCHANGED <<varsB, varsW, varsF, varsD, varsI>>
  \/ FetchContents /\ UNCHANGED <<varsB, varsW, varsF, varsD, varsI>>
  \/ ProcessContents /\ UNCHANGED <<varsB, varsW, varsF, varsD, varsI>>
  \/ UploadStart /\ UNCHANGED <<varsB, varsW, varsF, varsD, varsI>>
  \/ ContentWrite /\ UNCHANGED <<varsB, varsW, varsF, varsD, varsI>>
  \/ UploadsReturned /\ UNCHANGED <<varsB, varsW, varsF, varsD, varsI>>
  \/ MetadataWrite /\ UNCHANGED <<varsB, varsW, varsF, varsD, varsI>>
  \/ SubmitJob /\ UNCHANGED <<varsB, varsW, varsF, varsD, varsI>>

Spec == Init /\ [][Next]_vars

\* Stage B: one invocation of translatedEventHandler for a job of stage A.
InitStageB == InitB /\ DoneA /\ IdleW /\ IdleF /\ IdleD /\ IdleI

NextStageB ==
  \/ Handler /\ UNCHANGED <<varsA, varsW, varsF, varsD, varsI>>
  \/ DescribeJob /\ UNCHANGED <<varsA, varsW, varsF, varsD, varsI>>
  \/ ReadManifest /\ UNCHANGED <<varsA, varsW, varsF, varsD, varsI>>
  \/ ReadMetadata /\ UNCHANGED <<varsA, varsW, varsF, varsD, varsI>>
  \/ retrieveLibraryParametersB /\ UNCHANGED <<varsA, varsW, varsF, varsD, varsI>>
  \/ ReadTranslated /\ UNCHANGED <<varsA, varsW, varsF, varsD, varsI>>
  \/ Merge /\ UNCHANGED <<varsA, varsW, varsF, varsD, varsI>>
  \/ Save /\ UNCHANGED <<varsA, varsW, varsF, varsD, varsI>>
  \/ Notify /\ UNCHANGED <<varsA, varsW, varsF, varsD, varsI>>

SpecB == InitStageB /\ [][NextStageB]_vars

\* The walks: one walk of a tree by retrieveSubpages, getSubpageContents or
\* saveToLibrary.
InitWalk == InitW /\ IdleA /\ IdleB /\ IdleF /\ IdleD /\ IdleI

NextWalk ==
  \/ (\E p \in 1..walkSrc.n : RetrieveOwn(p)) /\ UNCHANGED <<varsA, varsB, varsF, varsD, varsI>>
  \/ (\E p \in 1..walkSrc.n : FetchOwn(p)) /\ UNCHANGED <<varsA, varsB, varsF, varsD, varsI>>
  \/ (\E p \in 1..walkSrc.n : SaveOwn(p)) /\ UNCHANGED <<varsA, varsB, varsF, varsD, varsI>>
  \/ WalkReturn /\ UNCHANGED <<varsA, varsB, varsF, varsD, varsI>>

SpecW == InitWalk /\ [][NextWalk]_vars

\* The function calls: one call of one function.
InitCall == InitF /\ IdleA /\ IdleB /\ IdleW /\ IdleD /\ IdleI

NextCall ==
  \/ CallNewPagePath /\ UNCHANGED <<varsA, varsB, varsW, varsD, varsI>>
  \/ CallSaveToLibrary /\ UNCHANGED <<varsA, varsB, varsW, varsD, varsI>>
  \/ CallParsePagePath /\ UNCHANGED <<varsA, varsB, varsW, varsD, varsI>>
  \/ CallProcessPageContents /\ UNCHANGED <<varsA, varsB, varsW, varsD, varsI>>
  \/ CallCreatePageStructure /\ UNCHANGED <<varsA, varsB, varsW, varsD, varsI>>

SpecF == InitCall /\ [][NextCall]_vars

\* Discovery on a listing: the nested calls of retrieveSubpages along one path.
InitDiscovery == InitD /\ IdleA /\ IdleB /\ IdleW /\ IdleF /\ IdleI

NextDiscovery ==
  \/ DescendInto /\ UNCHANGED <<varsA, varsB, varsW, varsF, varsI>>
  \/ ReturnFrom /\ UNCHANGED <<varsA, varsB, varsW, varsF, varsI>>

SpecD == InitDiscovery /\ [][NextDiscovery]_vars

\* Ignition: one invocation of handleEngineIgnition.
InitIgnition == InitI /\ IdleA /\ IdleB /\ IdleW /\ IdleF /\ IdleD

NextIgnition ==
  \/ HandleEvent /\ UNCHANGED <<varsA, varsB, varsW, varsF, varsD>>
  \/ Authorize /\ UNCHANGED <<varsA, varsB, varsW, varsF, varsD>>
  \/ Validate /\ UNCHANGED <<varsA, varsB, varsW, varsF, varsD>>
  \/ Enqueue /\ UNCHANGED <<varsA, varsB, varsW, varsF, varsD>>

SpecI == InitIgnition /\ [][NextIgnition]_vars

---------------------------------------------------------------------------
(* Properties of stage A *)

\* The nodes of a page tree.
RECURSIVE Nodes(_)
Nodes(page) == {page} \cup UNION {Nodes(page.subpages[k]) : k \in 1..Len(page.subpages)}

\* The place of the entry of a page in a flat list.
PosOf(list, id) == CHOOSE k \in 1..Len(list) : list[k].id = id

\* A content write of the export failed: a status that is not 200, or a throw.
ContentWriteFailed == \E k \in 1..Len(uploadResponses) : uploadResponses[k] \in {"500", "threw"}

\* C1: the translation job is submitted only if the export fully succeeded: when
\* uploadLibreText reports failure, no submission call is made in the invocation.
C1_NoSubmitAfterFailedExport == ~(uploadResult = "false" /\ submitCalls # <<>>)

\* C2: the metadata record is written at most once and only after every content
\* write returned success; if a content write fails or throws, the record is never
\* written and uploadLibreText returns false.
C2_MetadataAfterAllContent ==
  /\ metadataPuts <= 1
  /\ metadataPuts > 0 =>
       /\ uploadResponses # <<>>
       /\ \A k \in 1..Len(uploadResponses) : uploadResponses[k] = "200"
  /\ ContentWriteFailed =>
       /\ metadataPuts = 0
       /\ ~(metadataKey(coverID(src.lib, PageId(1))) \in DOMAIN s3Output)
       /\ pcA # "uploading" => uploadResult = "false"

C2_Witness_Written ==
  /\ metadataPuts = 1
  /\ uploadResult = "true"
  /\ Len(uploadResponses) = MaxNodes
  /\ metadataKey(coverID(src.lib, PageId(1))) \in DOMAIN s3Output

\* C3: the flat list has as many entries as the tree has nodes, exactly one entry
\* with root = true, and the parent of every other entry is the id of another entry.
C3_FlatListShape ==
  ~IsNone(flatArg) =>
    /\ Len(flatMetadata) = Cardinality(Nodes(flatArg))
    /\ Cardinality({k \in 1..Len(flatMetadata) : flatMetadata[k].root}) = 1
    /\ \A k \in 1..Len(flatMetadata) :
         ~flatMetadata[k].root =>
           \E j \in 1..Len(flatMetadata) : j # k /\ flatMetadata[j].id = flatMetadata[k].parent

C3_Witness_Flattened ==
  /\ ~IsNone(flatArg)
  /\ Len(flatMetadata) = MaxNodes
  /\ \E k \in 1..Len(flatArg.subpages) : Len(flatArg.subpages[k].subpages) > 0

\* C4: the flat list is in pre-order: a node comes before its subpages, the subtree
\* of a subpage comes before the next subpage, and no entry has a contents or a
\* subpages field.
C4_PreOrder ==
  ~IsNone(flatArg) =>
    /\ \A page \in Nodes(flatArg) :
         \A k \in 1..Len(page.subpages) :
           /\ PosOf(flatMetadata, page.id) < PosOf(flatMetadata, page.subpages[k].id)
           /\ k > 1 =>
                \A before \in Nodes(page.subpages[k - 1]) :
                  PosOf(flatMetadata, before.id) < PosOf(flatMetadata, page.subpages[k].id)
    /\ \A k \in 1..Len(flatMetadata) :
         DOMAIN flatMetadata[k] \cap {"contents", "subpages"} = {}

C4_Witness_Siblings ==
  /\ ~IsNone(flatArg)
  /\ Len(flatArg.subpages) > 1
  /\ "contents" \in DOMAIN flatArg

\* C5: the flattener is pure: after createFlatPageMetadataList(tree) returned, the
\* tree passed in still has the contents and subpages it had before the call.
C5_FlattenLeavesTree == ~IsNone(flatArg) => subpageResults = flatArg

\* C11: when the tags of the root page do not include 'coverpage:yes', discovery
\* returns null and stage A stops: no content or property fetch for any page,
\* nothing exported, no translation job submitted.
C11_NoCoverNoWork ==
  ~src.cover =>
    /\ IsNone(subpageResults) \/ IsNullObj(subpageResults)
    /\ fetched = {}
    /\ uploadCommands = <<>>
    /\ s3Input = <<>>
    /\ s3Output = <<>>
    /\ metadataPuts = 0
    /\ submitCalls = <<>>
    /\ pcA \in {"parse", "delete", "params", "discover", "done"}
    /\ pcA = "done" => resultA \in {"false", "threw"}

C11_Witness_NotACover ==
  /\ ~src.cover
  /\ src.n = MaxNodes
  /\ IsNullObj(subpageResults)
  /\ resultA = "false"

\* C19: the queue message is deleted only after the body was parsed, and before
\* any discovery, fetch, export or job submission: a body that cannot be parsed
\* leaves the message in the queue, and when the deletion fails no work is begun.
C19_DeleteAfterParseBeforeWork ==
  /\ queueDeleted => event.bodyOk /\ ~IsNone(reqParams)
  /\ ~event.bodyOk => ~queueDeleted /\ pcA \in {"parse", "done"}
  /\ ~queueDeleted =>
       /\ pcA \in {"parse", "delete", "done"}
       /\ IsNone(subpageResults)
       /\ fetched = {}
       /\ uploadCommands = <<>>
       /\ s3Input = <<>>
       /\ s3Output = <<>>
       /\ metadataPuts = 0
       /\ submitCalls = <<>>

C19_Witness_DeletionFailed ==
  /\ event.bodyOk
  /\ ~IsNone(reqParams)
  /\ ~queueDeleted
  /\ pcA = "done"
  /\ resultA = "false"

\* C17: the notification addresses of the request are kept in the metadata record
\* that stage A writes (notifyAddrs), from where stage B takes the recipients of
\* the completion message.
C17_NotifyAddrsInMetadata ==
  \A key \in DOMAIN s3Output :
    /\ "notifyAddrs" \in DOMAIN s3Output[key]
    /\ s3Output[key].notifyAddrs = event.notifyAddrs

\* A branch of the tree is null: the discovery of a page other than the root failed.
RECURSIVE HasNullBranch(_)
HasNullBranch(page) ==
  /\ "subpages" \in DOMAIN page
  /\ \E k \in 1..Len(page.subpages) :
       IsNullObj(page.subpages[k]) \/ HasNullBranch(page.subpages[k])

\* Discovery returned a tree.
Discovered == ~IsNone(subpageResults) /\ ~IsNullObj(subpageResults)

\* C27: when the discovery of a page other than the root fails, only that branch is
\* lost: stage A goes on without an unhandled exception and fetches every other
\* discovered page, whose contents are exported.
C27_LostBranchSparesOthers ==
  (Discovered /\ HasNullBranch(subpageResults)) =>
    /\ resultA # "threw"
    /\ pcA = "done" => (fetched = TreeIds(subpageResults) /\ uploadCommands # <<>>)

\* C28: when the content fetch of one page fails (its contents are null), the other
\* pages are not affected: the contents of every other page are exported.
C28_FailedContentSparesOthers ==
  (Discovered /\ ~HasNullBranch(subpageResults) /\ pcA \in {"submit", "done"}
     /\ "subpages" \in DOMAIN subpageResults
     /\ \E page \in Nodes(subpageResults) : IsNullObj(page.contents)) =>
    \A page \in Nodes(subpageResults) :
      ~IsNullObj(page.contents) =>
        \E k \in 1..Len(uploadCommands) : uploadCommands[k].Body = page.contents

\* The translation job was submitted and accepted.
JobAccepted == submitCalls # <<>> /\ submitCalls[Len(submitCalls)].accepted

\* C34: the stage-A handler returns true only if the process succeeded: when
\* the export or the submission of the translation job failed it returns false.
C34_TrueOnlyOnSuccess ==
  (pcA = "done" /\ resultA = "true") => (uploadResult = "true" /\ JobAccepted)


---------------------------------------------------------------------------
(* Properties of stage B *)

\* mergeInputStructure returned a tree.
Reconstructed == ~IsNone(pageStructure) /\ ~IsNullObj(pageStructure)

\* The fields mergeInputStructure copies from the entry of allPages.
InputFields == {"root", "parent", "tags", "props", "path", "urlNumPrefix", "urlTitleExtract"}

\* The round trip of an unmodified text: every page has its fragment, with the
\* text the export wrote.
RoundTripCase ==
  /\ Reconstructed
  /\ world.mode = "same"
  /\ \A i \in 1..MaxNodes : world.status[i] = "ok"
  /\ Len(translatedPages) = Len(inputMetadata.allPages)

\* C6: flattening a tree, reconstructing it with mergeInputStructure from one
\* unmodified fragment per entry and flattening the reconstructed tree again gives
\* the first flat list up to the order of the nodes.
C6_RoundTripEqual ==
  RoundTripCase =>
    SeqRange(createFlatPageMetadataList(pageStructure)) = SeqRange(inputMetadata.allPages)

\* C6 (amended): the second flat list has one entry per entry of the first, with
\* the same lib and id, the same root, parent, tags, props, path and section hints,
\* the title up to surrounding whitespace and the summary (empty when the page had
\* none); the url of the entry is not carried over.
C6_RoundTripOnMergedFields ==
  RoundTripCase =>
    LET first == inputMetadata.allPages
        again == createFlatPageMetadataList(pageStructure)
    IN /\ Len(again) = Len(first)
       /\ \A k \in 1..Len(first) :
            \E j \in 1..Len(again) :
              /\ again[j].lib = first[k].lib
              /\ again[j].id = first[k].id
              /\ \A f \in InputFields : Get(again[j], f) = Get(first[k], f)
              /\ Trim(again[j].title) = first[k].title
              /\ again[j].summary = (IF "summary" \in DOMAIN first[k]
                                     THEN first[k].summary ELSE <<>>)
              /\ DOMAIN again[j] \cap {"url", "contents", "subpages"} = {}

C6_Witness_RoundTrip ==
  /\ RoundTripCase
  /\ Len(inputMetadata.allPages) = MaxNodes
  /\ \E k \in 1..Len(inputMetadata.allPages) : "urlNumPrefix" \in DOMAIN inputMetadata.allPages[k]
  /\ \E k \in 1..Len(pageStructure.subpages) : Len(pageStructure.subpages[k].subpages) > 0

\* The entry of allPages with the lib and id of a fragment, null when there is none.
EntryOf(page) ==
  Find(inputMetadata.allPages, LAMBDA e : e.lib = page.lib /\ e.id = page.id)

\* The fragment with the lib and id of a node.
FragmentOf(page) ==
  Find(translatedPages, LAMBDA t : t.lib = page.lib /\ t.id = page.id)

\* C7: a fragment whose (lib, id) is that of an entry of allPages gets root, parent,
\* tags, props, path, urlNumPrefix and urlTitleExtract from the entry and keeps its
\* own title, summary and contents; in the reconstructed tree it is a subpage of
\* the node whose id is its parent.
C7_MergeFieldsAndPlace ==
  Reconstructed =>
    /\ \A k \in 1..Len(translatedPages) :
         LET entry == EntryOf(translatedPages[k])
             merged == mergePage(inputMetadata.allPages, translatedPages[k])
         IN ~IsNullObj(entry) =>
              /\ \A f \in InputFields : merged[f] = Get(entry, f)
              /\ merged.title = translatedPages[k].title
              /\ merged.summary = translatedPages[k].summary
              /\ merged.contents = translatedPages[k].contents
              /\ \A node \in Nodes(pageStructure) :
                   node.id = entry.parent =>
                     \E j \in 1..Len(node.subpages) : node.subpages[j].id = entry.id
    /\ \A node \in Nodes(pageStructure) :
         /\ \A f \in InputFields : node[f] = Get(EntryOf(node), f)
         /\ node.title = FragmentOf(node).title
         /\ node.summary = FragmentOf(node).summary
         /\ node.contents = FragmentOf(node).contents
         /\ \A j \in 1..Len(node.subpages) : node.subpages[j].parent = node.id

C7_Witness_Translated ==
  /\ Reconstructed
  /\ world.mode = "translated"
  /\ \E k \in 1..Len(pageStructure.subpages) :
       /\ Len(pageStructure.subpages[k].subpages) > 0
       /\ Head(pageStructure.subpages[k].title) = "[es]"
       /\ pageStructure.subpages[k].tags = <<"article:topic">>

\* C8: the (lib, id) retrieveTranslationJobDetails decodes from the input path of
\* the manifest is the one stage A exported and submitted the job under, so the
\* metadata key stage B reads is the key the export wrote.
C8_CorrelationRoundTrip ==
  (~IsNone(jobMetadata) /\ world.manifest = "ok") =>
    /\ jobMetadata.lib = world.source.lib
    /\ jobMetadata.id = PageId(1)
    /\ sourceMetadataKey(jobMetadata.lib, jobMetadata.id)
         = metadataKey(coverID(world.source.lib, PageId(1)))

\* The manifest was read from the store.
ManifestRead == \E r \in s3Reads : r.status = "200"

IsMetadataKey(key) == key # <<>> /\ key[Len(key)] = ".metadata.json"

\* C9: when the input path of the manifest does not decode to a well-formed
\* (lib, id) pair, processTranslated returns false and no read of the metadata
\* record is attempted.
C9_BadInputPathStops ==
  (world.manifest \in BadPathKinds /\ ManifestRead) =>
    /\ pcB = "done"
    /\ resultB = "false"
    /\ IsNone(jobMetadata)
    /\ \A r \in s3Reads : ~IsMetadataKey(r.Key)

C9_Witness_NoHyphen ==
  /\ world.manifest = "noHyphen"
  /\ ManifestRead
  /\ resultB = "false"

\* C10: when the manifest is missing or malformed, or the metadata record cannot be
\* found or parsed, the invocation ends there: no page is created and no completion
\* notification is sent.
C10_NoCorrelationNoWrite ==
  (world.manifest # "ok" \/ world.metadata # "ok") =>
    /\ created = {}
    /\ notified = <<>>
    /\ IsNone(inputMetadata)
    /\ pcB \in {"handler", "describe", "manifest", "metadata", "done"}
    /\ pcB = "done" => resultB \in {"false", "threw"}

C10_Witness_NoTargetLib ==
  /\ world.metadata = "noTargetLib"
  /\ \E r \in s3Reads : IsMetadataKey(r.Key) /\ r.status = "200"
  /\ pcB = "done"
  /\ resultB = "false"

\* C18: sendCompletionNotification is called only after saveToLibrary returned,
\* and only when it returned true, at most once; when the write fails no
\* notification is attempted and the handler returns false.
C18_NotifyOnlyAfterSuccessfulSave ==
  /\ notifyCalls <= 1
  /\ notifyCalls > 0 => saveSuccess = "true" /\ pcB = "done"
  /\ notified # <<>> => notifyCalls > 0
  /\ saveSuccess = "false" => notifyCalls = 0 /\ notified = <<>>
  /\ (saveSuccess = "false" /\ pcB = "done") => resultB = "false"

C18_Witness_NotifyCalled ==
  /\ pcB = "done"
  /\ saveSuccess = "true"
  /\ created # {}
  /\ notifyCalls = 1
  /\ resultB = "true"

\* The fragments mergeInputStructure was given that match an entry of allPages,
\* and those that match none.
Matched == SelectSeq(translatedPages, LAMBDA t : ~IsNullObj(EntryOf(t)))

Unmatched == SelectSeq(translatedPages, LAMBDA t : IsNullObj(EntryOf(t)))

C21_NoRootNothingWritten ==
  (~IsNone(pageStructure) /\ \A k \in 1..Len(Matched) : ~EntryOf(Matched[k]).root) =>
    /\ IsNullObj(pageStructure)
    /\ created = {}
    /\ notifyCalls = 0
    /\ notified = <<>>
    /\ saveSuccess # "true"
    /\ pcB = "done" => resultB = "false"

C21_Witness_RootUnmatched ==
  /\ ~IsNone(pageStructure)
  /\ Len(Matched) > 0
  /\ \A k \in 1..Len(Matched) : ~EntryOf(Matched[k]).root
  /\ saveSuccess = "false"
  /\ pcB = "done"
  /\ resultB = "false"

\* C31: stage B works only for a completed job and in the order correlation,
\* reconstruction, writing, notification: an event whose jobStatus is not
\* 'COMPLETED' or that has no job id causes no storage read, no page creation and no
\* notification; otherwise no page is created before the manifest and the metadata
\* record were both read successfully.
C31_CompletedJobInOrder ==
  /\ (eventB.jobStatus # "COMPLETED" \/ ~isNonEmptyString(eventB.jobId)) =>
       /\ s3Reads = {}
       /\ created = {}
       /\ notifyCalls = 0
       /\ notified = <<>>
       /\ pcB \in {"handler", "done"}
       /\ pcB = "done" => resultB = "false"
  /\ created # {} =>
       /\ \E r \in s3Reads :
            r.Key = formattedKey(OUTPUT_BUCKET, transOutputURI) /\ r.status = "200"
       /\ \E r \in s3Reads : IsMetadataKey(r.Key) /\ r.status = "200"
       /\ ~IsNone(jobMetadata)
       /\ ~IsNone(inputMetadata)
       /\ ~IsNone(pageStructure)
  /\ notifyCalls > 0 => created # {}

C31_Witness_JobNotCompleted ==
  /\ eventB.jobStatus = "FAILED"
  /\ isNonEmptyString(eventB.jobId)
  /\ pcB = "done"
  /\ resultB = "false"
  /\ s3Reads = {}

\* C35: a failed read of the manifest or of the metadata record, a rejected
\* GetObject call for a missing key included, is reported by getFileContents
\* as null, and processTranslated returns false instead of raising.
C35_FailedReadReturnsFalse ==
  (/\ pcB = "done"
   /\ \E r \in s3Reads :
        /\ r.status # "200"
        /\ r.Key = formattedKey(OUTPUT_BUCKET, transOutputURI) \/ IsMetadataKey(r.Key))
  => resultB = "false"

\* The translated files that gave no fragment.
Unreadable == {k \in 1..Len(translatedPages) : IsNullObj(translatedPages[k])}

\* C36: a translated file that cannot be read or parsed into a fragment
\* (retrieveAndProcessTranslatedContent returns null) does not abort the
\* reconstruction: mergeInputStructure skips it and returns, and stage B goes
\* on to write what it built from the remaining fragments.
C36_UnreadableFragmentSkipped ==
  (Unreadable # {} /\ pcB # "merge") =>
    /\ ~IsNone(pageStructure)
    /\ resultB # "threw"
    /\ ~IsNullObj(pageStructure) =>
         \A id \in TreeIds(pageStructure) :
           \E k \in 1..Len(translatedPages) :
             k \notin Unreadable /\ translatedPages[k].id = id

\* The root page of the reconstructed tree was created on the destination library.
RootCreated ==
  /\ ~IsNone(pageStructure) /\ ~IsNullObj(pageStructure)
  /\ \E c \in created : c.source = coverID(pageStructure.lib, pageStructure.id)

\* The pages of the reconstructed tree that were not created.
NotCreated ==
  {id \in TreeIds(pageStructure) :
     \A c \in created : c.source # coverID(pageStructure.lib, id)}

\* C38: saveToLibrary returns true for the root, and processTranslated returns
\* true and calls sendCompletionNotification, exactly when the root page was
\* created, whatever happened to the pages below it.
C38_ResultFollowsRootCreation ==
  /\ saveSuccess # "none" => (saveSuccess = "true" <=> RootCreated)
  /\ (pcB = "done" /\ saveSuccess # "none") =>
       /\ resultB = "true" <=> RootCreated
       /\ notifyCalls = 1 <=> RootCreated
       /\ resultB \in {"true", "false"}

\* The root was created, a page below it was not, and the handler returned true
\* after the notification.
C38_Witness_SubtreeFailedRootSaved ==
  /\ pcB = "done"
  /\ RootCreated
  /\ NotCreated # {}
  /\ resultB = "true"
  /\ notifyCalls = 1

---------------------------------------------------------------------------
(* Properties of the recursive walks *)

\* No page has more than MAX_CONCURRENT of its subpages' calls in flight.
WithinLimit ==
  \A p \in 1..walkSrc.n : Cardinality(InFlight(walkCall, p)) <= MAX_CONCURRENT

\* C12: during discovery, for every page at most MAX_CONCURRENT of the discoveries
\* of its subpages are in flight at the same time.
C12_DiscoveryWithinLimit == walkOp = "discover" => WithinLimit

\* C13: during the content fetch and during the writing to the destination, for
\* every page at most MAX_CONCURRENT of its subpages are being processed at the
\* same time.
C13_FetchAndSaveWithinLimit == walkOp \in {"fetch", "save"} => WithinLimit

C13_Witness_ThirdSubpageWaits ==
  /\ walkOp = "save"
  /\ Len(Children(walkSrc, 1)) > MAX_CONCURRENT
  /\ Cardinality(InFlight(walkCall, 1)) = MAX_CONCURRENT
  /\ \E c \in SeqRange(Children(walkSrc, 1)) : walkCall[c] = "idle"
  /\ \E c \in SeqRange(Children(walkSrc, 1)) : walkCall[c] = "subpages"

\* The pages below page p in the walked tree.
RECURSIVE Below(_)
Below(p) ==
  LET kids == SeqRange(Children(walkSrc, p))
  IN kids \cup UNION {Below(c) : c \in kids}

\* The creation request of page p was made and did not give a new page.
CreateFailed(p) == walkCreate[p] \in {"failure", "noId"}

\* C14: in saveToLibrary, when the creation of a page other than the root fails,
\* the call for its parent does not fail: it goes on awaiting its subpages and
\* returns true, and by then every sibling of the failed page has been attempted.
C14_FailedChildSparesSiblings ==
  walkOp = "save" =>
    \A p \in 2..walkSrc.n :
      CreateFailed(p) =>
        /\ walkCall[p] = "false"
        /\ walkCall[walkSrc.par[p]] \in {"subpages", "true"}
        /\ walkCall[walkSrc.par[p]] = "true" =>
             \A c \in SeqRange(Children(walkSrc, walkSrc.par[p])) :
               walkCreate[c] # "none" /\ walkCall[c] \in {"true", "false"}

C14_Witness_SiblingSaved ==
  /\ walkOp = "save"
  /\ \E p \in 2..walkSrc.n, c \in 2..walkSrc.n :
       /\ walkSrc.par[c] = walkSrc.par[p]
       /\ p < c
       /\ CreateFailed(p)
       /\ walkCreate[c] = "success"
       /\ walkCall[c] = "true"
       /\ walkCall[walkSrc.par[p]] = "true"

\* C15: in saveToLibrary, the creation request of a page other than the root is
\* made only after the creation of its parent succeeded, and below a page whose
\* creation failed no creation request is ever made.
C15_ChildAfterParentCreated ==
  walkOp = "save" =>
    \A p \in 2..walkSrc.n :
      /\ walkCall[p] # "idle" => createSucceeded(walkCreate[walkSrc.par[p]])
      /\ walkCreate[p] # "none" => walkCreate[walkSrc.par[p]] = "success"
      /\ CreateFailed(walkSrc.par[p]) =>
           \A d \in Below(walkSrc.par[p]) : walkCreate[d] = "none" /\ walkCall[d] = "idle"

C15_Witness_MissingIdStopsSubtree ==
  /\ walkOp = "save"
  /\ walkCall[1] = "true"
  /\ \E p \in 2..walkSrc.n :
       /\ walkCreate[p] = "noId"
       /\ Below(p) # {}
       /\ \A d \in Below(p) : walkCreate[d] = "none"
       /\ \E c \in 2..walkSrc.n : c # p /\ walkCreate[c] = "success"

\* C16: in saveToLibrary, once the page is created a failure of the tag update,
\* of the property update or of the thumbnail copy does not fail the call: it goes
\* on to the subpages, which are all attempted, and returns true.
C16_SoftFailuresTolerated ==
  walkOp = "save" =>
    \A p \in 1..walkSrc.n :
      (\E kind \in {"tags", "props", "thumbnail"} : <<p, kind>> \in walkSoft) =>
        /\ walkCreate[p] = "success"
        /\ walkCall[p] \in {"subpages", "true"}
        /\ walkCall[p] = "true" =>
             \A c \in SeqRange(Children(walkSrc, p)) : walkCreate[c] # "none"

C16_Witness_AllThreeFailed ==
  /\ walkOp = "save"
  /\ \E p \in 1..walkSrc.n :
       /\ {<<p, "tags">>, <<p, "props">>, <<p, "thumbnail">>} \subseteq walkSoft
       /\ walkCall[p] = "true"
       /\ \E c \in SeqRange(Children(walkSrc, p)) : walkCall[c] = "true"

\* C29: every request to the API carries a token generated for that request: no
\* token is used for two requests.
C29_TokenPerRequest ==
  \A r1 \in walkRequests, r2 \in walkRequests : r1.token = r2.token => r1 = r2

---------------------------------------------------------------------------
(* Properties of the function calls *)

\* The trimmed title without a leading "number:" segment.
TitleWithoutNumber(title) ==
  LET trimTitle == Trim(title)
  IN IF Len(trimTitle) >= 2 /\ IsNumToken(trimTitle[1]) /\ trimTitle[2] = ":"
     THEN Trim(SubSeq(trimTitle, 3, Len(trimTitle)))
     ELSE trimTitle

\* C22: with a section-number hint n the path segment of a page is "n: title" with
\* the spaces replaced by underscores, where title is the trimmed title without a
\* leading "number: " segment and with nothing else removed; without a hint it is
\* the trimmed title with the spaces replaced by underscores.
C22_SegmentKeepsTitle ==
  (fnName = "newPagePath" /\ fnDone) =>
    fnResult = IF isNonEmptyString(fnArg.urlNumPrefix)
               THEN ReplaceAllTok(fnArg.urlNumPrefix \o <<":", " ">>
                                    \o TitleWithoutNumber(fnArg.title), " ", "_")
               ELSE ReplaceAllTok(Trim(fnArg.title), " ", "_")

\* The segments joined with one '/' between two of them.
RECURSIVE JoinPath(_)
JoinPath(segments) ==
  IF Len(segments) = 1 THEN segments[1]
  ELSE segments[1] \o <<"/">> \o JoinPath(Tail(segments))

\* C23: the path a page is created under is the destination root path, the path
\* segments of its ancestors from the root down and its own segment, joined with
\* exactly one '/' between two of them, one-character segments included.
C23_FullPathJoinsSegments ==
  (fnName = "saveToLibrary" /\ fnDone) =>
    \A k \in 1..Len(fnArg.titles) :
      \E page \in fnResult :
        /\ page.source = coverID(<<"chem">>, PageId(k))
        /\ page.path = JoinPath(<<fnArg.targetPath>> \o SubSeq(fnArg.titles, 1, k))

\* The final segment of a path: what follows its last '/'.
FinalSegment(path) ==
  LET slashes == {k \in 1..Len(path) : path[k] = "/"}
      last == IF slashes = {} THEN 0 ELSE CHOOSE k \in slashes : \A j \in slashes : j <= k
  IN SubSeq(path, last + 1, Len(path))

\* The place of the first delimiter '%3A' in a segment, 0 when it has none.
FirstDelimiter(segment) == IndexOf(segment, <<"%3A">>)

\* C24: parsePagePath succeeds exactly when the final segment of the path contains
\* the delimiter '%3A' and the part before the first delimiter is a numeric or 'zz'
\* token; on success urlNumPrefix is that part; without delimiter it fails.
C24_ParseSucceedsOnNumberToken ==
  (fnName = "parsePagePath" /\ fnDone) =>
    LET segment == FinalSegment(fnArg)
        at == FirstDelimiter(segment)
        numberPart == SubSeq(segment, 1, at - 1)
    IN /\ fnResult[1] <=> (at > 0 /\ Len(numberPart) = 1 /\ IsNumToken(numberPart[1]))
       /\ fnResult[1] => fnResult[2] = numberPart
       /\ at = 0 => ~fnResult[1]

\* C25: when parsePagePath succeeds, urlTitleExtract is the whole remainder of the
\* final segment after the first delimiter with the underscores turned into spaces:
\* nothing after a second delimiter is cut off.
C25_TitleExtractIsRemainder ==
  (fnName = "parsePagePath" /\ fnDone /\ fnResult[1]) =>
    LET segment == FinalSegment(fnArg)
        at == FirstDelimiter(segment)
    IN fnResult[3] = Trim(ReplaceAllTok(SubSeq(segment, at + 1, Len(segment)), "_", " "))

\* C26: the rewrite of processPageContents applied to its own output gives the
\* wrapping it gave the first time: a template token that is already inside the
\* non-translatable element is not wrapped again.
C26_WrappingIdempotent ==
  (fnName = "processPageContents" /\ fnDone) =>
    processPageContents(fnResult).contents.body = fnResult.contents.body

\* The number of nodes of the tree whose id is id.
RECURSIVE Occurrences(_, _)
Occurrences(tree, id) ==
  LET RECURSIVE Sum(_)
      Sum(ts) == IF ts = <<>> THEN 0 ELSE Occurrences(Head(ts), id) + Sum(Tail(ts))
  IN (IF tree.id = id THEN 1 ELSE 0) + Sum(tree.subpages)

\* The nodes of the tree.
RECURSIVE NodesOf(_)
NodesOf(tree) == {tree} \cup UNION {NodesOf(tree.subpages[k]) : k \in 1..Len(tree.subpages)}

\* The fragment with this id and its ancestors up to the root all are in frags
\* (followed for at most fuel fragments).
RECURSIVE ChainPresent(_, _, _)
ChainPresent(frags, id, fuel) ==
  /\ fuel > 0
  /\ \E k \in 1..Len(frags) :
       /\ frags[k].id = id
       /\ frags[k].root \/ ChainPresent(frags, frags[k].parent, fuel - 1)

\* C37: in the tree createPageStructure builds from the matched fragments
\* (unique ids), every fragment whose ancestors up to the root are all present
\* appears exactly once, as a subpage of the node whose id is its parent; every
\* other fragment (its parent, or an ancestor, has no fragment) is left out with
\* its whole subtree; the construction ends, with at most one node per fragment.
C37_TreeHoldsConnectedFragmentsOnce ==
  (fnName = "createPageStructure" /\ fnDone) =>
    /\ fnResult.root
    /\ Cardinality(NodesOf(fnResult)) <= Len(fnArg)
    /\ \A k \in 1..Len(fnArg) :
         LET f == fnArg[k]
         IN IF ChainPresent(fnArg, f.id, Len(fnArg))
            THEN /\ Occurrences(fnResult, f.id) = 1
                 /\ f.root \/ \E node \in NodesOf(fnResult) :
                                /\ node.id = f.parent
                                /\ \E j \in 1..Len(node.subpages) : node.subpages[j].id = f.id
            ELSE Occurrences(fnResult, f.id) = 0
    /\ \A node \in NodesOf(fnResult) :
         \A j \in 1..Len(node.subpages) : node.subpages[j].parent = node.id

\* Four fragments: page 2 names a parent that has no fragment, page 3 is under
\* page 2 and page 4 under the root; the tree is the root with page 4.
C37_Witness_OrphanSubtreeLeftOut ==
  /\ fnName = "createPageStructure" /\ fnDone
  /\ Len(fnArg) = 4
  /\ \E k \in 1..4 : fnArg[k].id = PageId(2) /\ fnArg[k].parent = AbsentId
  /\ \E k \in 1..4 : fnArg[k].id = PageId(3) /\ fnArg[k].parent = PageId(2)
  /\ \E k \in 1..4 : fnArg[k].id = PageId(4) /\ fnArg[k].parent = PageId(1)
  /\ Occurrences(fnResult, PageId(4)) = 1
  /\ Occurrences(fnResult, PageId(2)) = 0
  /\ Occurrences(fnResult, PageId(3)) = 0

---------------------------------------------------------------------------
(* Properties of discovery on listings *)

\* C30: discovery ends on every listing: when a page recurs below itself (the
\* listings hold a cycle), retrieveSubpages fails instead of calling itself for the
\* page again, so no page is twice among the nested calls.
C30_NoPageRecurs ==
  \A i \in 1..Len(chain), j \in 1..Len(chain) : chain[i] = chain[j] => i = j

---------------------------------------------------------------------------
(* Properties of ignition *)

Responded == pcI = "done" /\ ~IsNullObj(eventI)

Authorized == verifyAuthorization(eventI.headers, ssmOutcome)

\* The request names a source page and a target page on a library, a
\* language, and only well-formed addresses.
WellFormed(q) ==
  /\ ~IsNullObj(q)
  /\ {"url", "targetpath", "language"} \subseteq DOMAIN q
  /\ q.url \in {u \in SourceUrls : Len(u) = 8}
  /\ q.targetpath \in {u \in TargetUrls : Len(u) > 7}
  /\ q.language = <<"es">>
  /\ "notify" \in DOMAIN q => q.notify \in {n \in NotifyLists : Len(n) \in {3, 8}}

\* C32: a message is sent to the queue only for an authorized request whose
\* parameters all validated; an unauthorized request is answered 401 and an
\* invalid one 400, both without any queue message; 200 is answered only
\* after exactly one queue message was accepted.
C32_QueueOnlyAuthorizedAndValid ==
  /\ sendCalls > 0 => Authorized /\ WellFormed(eventI.queryStringParameters)
  /\ Len(queueI) <= sendCalls /\ sendCalls <= 1
  /\ Responded =>
       /\ ~Authorized => responseI = "401" /\ sendCalls = 0
       /\ (Authorized /\ ~WellFormed(eventI.queryStringParameters)) =>
            responseI = "400" /\ sendCalls = 0
       /\ responseI = "200" => sendCalls = 1 /\ Len(queueI) = 1

\* The part of C32 about requests that carry query-string parameters.
C32_HoldsWithParameters ==
  (~IsNullObj(eventI) /\ ~IsNullObj(eventI.queryStringParameters)) =>
     C32_QueueOnlyAuthorizedAndValid

\* C33: an authorized request whose parameters are missing or malformed,
\* null query-string parameters included, has validateEventParams return
\* [false, errors, ...] and is answered 400, never an exception.
C33_InvalidParamsAnswered400 ==
  (Responded /\ Authorized /\ ~WellFormed(eventI.queryStringParameters)) =>
     /\ ~DidThrow(validationI)
     /\ ~validationI.valid /\ validationI.errors # <<>>
     /\ responseI = "400"

\* The part of C33 about parameters that are present.
C33_HoldsWithParameters ==
  (~IsNullObj(eventI) /\ ~IsNullObj(eventI.queryStringParameters)) =>
     C33_InvalidParamsAnswered400

====
